---- MODULE Spec2Model ----
(***************************************************************************)
(* State-machine model of the 4coinsbot trading bot:                       *)
(*   order_executor.py  (place_buy_order, sell_position, block registry),  *)
(*   trader.py          (enter_position_contracts, close_market,           *)
(*                       close_market_early_exit, detailed stats),         *)
(*   safety_guard.py    (check_order_allowed, record_order),               *)
(*   main.py            (on_price_update callbacks, validate_prices, the   *)
(*                       timer check check_coin_sys2 and the main loop).   *)
(*                                                                         *)
(* Specifications.  Spec: the lifecycle of one coin's markets; SpecBuy,    *)
(* SpecGuard, SpecFak and SpecStop: place_buy_order (with the guard's      *)
(* denials, with large targets, with the emergency stop); SpecSell:        *)
(* sell_position; SpecRpc: get_blockchain_token_balance; SpecExit,         *)
(* SpecWallet, SpecExitSell and SpecLedger: the ledger's close operations  *)
(* (with fills the ledger has not recorded, with sells that raise, with    *)
(* writes of the trade log that may fail); SpecTick and SpecRetry: the     *)
(* exit evaluation of price updates and of the timer, SpecRetry under      *)
(* fair scheduling; SpecLoop: the main loop's price handling; SpecTrigger: *)
(* the exit triggers of a price update; SpecRedeem: the redemptions of     *)
(* simple_redeem_collector.py and of the Telegram callbacks; SpecRegistry: *)
(* the block registry and the head of place_buy_order; SpecReload: the     *)
(* trade log written by the ledger and read back by load_previous_trades;  *)
(* SpecSellFair: one sell_position call under fair scheduling.             *)
(*                                                                         *)
(* Units.  Contract quantities are integers in milli-contracts (1 contract *)
(* = 1000), prices are integers in cents, and notionals are integers in    *)
(* milli-contract-cents (1 USD = 100000).  Python's float arithmetic is    *)
(* modelled by exact arithmetic on these integers; round(x, 2) is modelled *)
(* by RoundDiv with round-half-even, math.ceil by CeilDiv.                 *)
(***************************************************************************)
EXTENDS Integers, Sequences, FiniteSets, TLC

\* ------------------------------------------------------------------------
\* Bounds of the model
\* ------------------------------------------------------------------------
\* largest number of contracts a caller asks for
MaxContracts == 2
\* number of successive market slugs per coin
MaxMarkets == 2
\* number of concurrently running callback threads
NThreads == 2

\* ------------------------------------------------------------------------
\* Arithmetic helpers
\* ------------------------------------------------------------------------
\* math.ceil(x / d) for x >= 0, d > 0
CeilDiv(x, d) == (x + d - 1) \div d

\* round(x / d) as Python rounds (ties to the even neighbour), x >= 0
RoundDiv(x, d) ==
    LET q == x \div d
        r == x % d
    IN  IF 2 * r < d THEN q
        ELSE IF 2 * r > d THEN q + 1
        ELSE IF q % 2 = 0 THEN q ELSE q + 1

\* contracts (whole number) -> milli-contracts
Milli(c) == c * 1000

\* cents -> notional units (milli-contract-cents)
Notional(cents) == cents * 1000

RECURSIVE SumSeq(_)
SumSeq(s) == IF s = <<>> THEN 0 ELSE Head(s) + SumSeq(Tail(s))

\* ------------------------------------------------------------------------
\* Universe
\* ------------------------------------------------------------------------
COINS == {"btc", "eth"}
Slugs == COINS \X (1..MaxMarkets)
Sides == {"UP", "DOWN"}
Threads == 1..NThreads

\* place_buy_order derives the coin from the slug text "<coin>-updown-..."
CoinOf(slug) == slug[1]

\* ------------------------------------------------------------------------
\* Program constants
\* ------------------------------------------------------------------------
MAX_FAK_ATTEMPTS == 3
\* min_order_usd, in cents
MIN_ORDER_USD == 100
\* target_fill_percent
TARGET_FILL_PERCENT == 95
\* SLIPPAGE_BUY, in percent
SLIPPAGE_BUY == 5

\* market_start_prices status codes
ST_SKIP == -1
ST_PENDING == 0
ST_CLOSING == -2
ST_UNTRACKED == -999

\* configured safety limits (config.json has no defaults for the first two)
\* max_order_size_usd, in cents
max_order_size_usd == 300
\* max_total_investment per market, in cents
max_total_investment == 500
\* max_orders_per_minute
max_orders_per_minute == 6

VARIABLES
    pc,                  \* control point of every thread
    loc,                 \* local variables of every thread
    positions,           \* Trader.positions : slug -> per-side totals
    closed_markets,      \* Trader.closed_markets
    current_capital,     \* Trader.current_capital, per coin's trader
    closed_trades,       \* Trader.closed_trades, per coin's trader
    lock,                \* Trader.lock : the thread holding it, or 0
    token_ids_cache,     \* trader._token_ids_cache (slugs with token ids)
    order_executor,      \* trader._order_executor is set
    emergency_stop,      \* SafetyGuard.emergency_stop
    dry_run,             \* SafetyGuard.dry_run
    sweep_enable_fallback, \* execution.sell.sweep_enable_fallback
    rpc,                 \* get_blockchain_token_balance: the running query
    redeem,              \* redeem_position calls of the redeeming threads
    registry_call,       \* the latest call of the block registry's users
    orders_history,      \* SafetyGuard.orders_history within the last minute
    invested_per_market, \* SafetyGuard.invested_per_market
    blocked_markets,     \* order_executor._blocked_markets : coin -> slugs
    market_start_prices, \* main.market_start_prices : coin -> slug -> status
    witnessed_market_switch, \* main.witnessed_market_switch : coin -> bool
    feed_slug,           \* DataFeed: the current market of every coin
    mv,                  \* position and locals of the main loop
    hist,                \* history of exit triggers and submitted orders
    last_entry,          \* history: the latest ledger increment
    sv,                  \* local variables of sell_position, per thread
    chain_balance        \* on-chain token balance of every (slug, side)

exitVars == <<closed_markets, current_capital, closed_trades, lock>>
traderVars == <<positions, last_entry, exitVars>>
cfgVars == <<token_ids_cache, order_executor, emergency_stop, dry_run,
             sweep_enable_fallback, rpc, redeem, registry_call>>
safetyVars == <<orders_history, invested_per_market>>
loopVars == <<witnessed_market_switch, feed_slug, mv, hist>>
marketVars == <<blocked_markets, market_start_prices, loopVars>>

vars == <<pc, loc, sv, traderVars, cfgVars, safetyVars, marketVars,
          chain_balance>>

\* the main loop before its first iteration
NoMain == [pc |-> "m_top", coin |-> "btc", market_slug |-> <<"btc", 1>>,
           price |-> 0]

\* no balance query is running: no round has been made and nothing returned.
\* attempt is the loop variable of the retry loop, outcome and order are the
\* endpoints' answers and completion order in the round made last, answered
\* records that some endpoint answered in time in some round of this call
NoRpc == [pc |-> "idle", parallel |-> TRUE, attempt |-> 0, outcome |-> <<>>,
          order |-> <<>>, answered |-> FALSE, result |-> 0]

\* the threads that redeem: SimpleRedeemCollector's daemon thread and the
\* TelegramCommandListener thread that runs the operator's redeem handlers
RedeemThreads == {"collector", "listener"}

\* no redemption is queued or running: pc is each thread's position in
\* redeem_position, queue the positions its run has still to redeem, nonce
\* the transaction count it read for the transaction it built, retry its
\* retry_attempt; chain_nonce is the wallet's transaction count, runs the
\* number of runs started and shared records that two transactions built
\* on the same transaction count were both pending
NoRedeem == [pc |-> [th \in RedeemThreads |-> "idle"],
             queue |-> [th \in RedeemThreads |-> 0],
             nonce |-> [th \in RedeemThreads |-> -1],
             retry |-> [th \in RedeemThreads |-> 1],
             chain_nonce |-> 0, runs |-> 0, shared |-> FALSE]

\* no call of block_market, unblock_market or place_buy_order yet
NoCall == [op |-> "none", slug |-> <<"", 0>>, coin |-> "", outcome |-> ""]

\* no exit trigger has fired and no order has been submitted; trades_file
\* is the records appended to each trader's trades.jsonl and restarts the
\* number of times the traders were constructed again
NoHist == [ever_closing |-> {}, triggers |-> [s \in Slugs |-> 0],
           sells |-> [k \in Slugs \X Sides |-> 0], entries |-> 0,
           closes |-> 0, log_failures |-> 0,
           trades_file |-> [c \in COINS |-> <<>>], restarts |-> 0]

\* OrderResult of a buy that has not happened
NoResult ==
    [success |-> FALSE, filled_size |-> 0, total_spent_usd |-> 0,
     dry_run |-> FALSE, error |-> "NONE"]

\* locals of close_market_early_exit when no exit is running; proceeds is
\* history: what the venue paid for the sells of this exit
NoExit ==
    [active |-> FALSE, slug |-> <<"btc", 1>>, exit_price |-> 0,
     up_contracts |-> 0, down_contracts |-> 0, payout |-> 0,
     total_cost |-> 0, pnl |-> 0, side |-> "UP", real_payout |-> 0,
     real_sells_executed |-> FALSE, proceeds |-> 0, capital_before |-> 0,
     ret |-> "none"]

\* locals of a thread that is not inside any call
NoLocals ==
    [slug |-> <<"btc", 1>>, side |-> "UP", price |-> 0, contracts |-> 0,
     ask_price |-> 0, normalized_price |-> 0,
     total_filled_contracts |-> 0, total_spent_usd |-> 0,
     fak_attempt |-> 0, order_size |-> 0, reports |-> <<>>,
     result |-> NoResult, ret |-> "none", exit |-> NoExit,
     late_orders |-> 0, posted |-> 0,
     up_ask |-> 0, down_ask |-> 0, up_ask_ts |-> 0, down_ask_ts |-> 0,
     now |-> 0, path |-> "none", block_seen |-> 0]

\* an outcome token is one side of one market
Tokens == Slugs \X Sides

\* get_blockchain_token_balance returned None
NONE == -1

\* sell_position configuration defaults
\* chunk_size, in contracts
CHUNK_SIZE == 40
MAX_CHUNK_RETRIES == 3
\* min_dust_threshold (0.1 contracts), in milli-contracts
MIN_DUST_THRESHOLD == 100
SWEEP_MAX_ATTEMPTS == 3
SWEEP_FAK_ATTEMPTS == 2
\* delayed_sweep_min_balance (0.1 contracts), in milli-contracts
DELAYED_SWEEP_MIN_BALANCE == 100
DELAYED_SWEEP_FOK_ATTEMPTS == 3
DELAYED_SWEEP_FAK_ATTEMPTS == 2

\* locals of sell_position when no sell is running
NoSell ==
    [token |-> <<<<"btc", 1>>, "UP">>, initial_balance |-> 0,
     chunks |-> <<>>, i |-> 0, attempt |-> 0,
     total_sold |-> 0, total_received_usd |-> 0, failed_chunks |-> {},
     final_balance |-> 0, sweep_success |-> FALSE,
     delayed_balance |-> 0, delayed_sold |-> 0, delayed_received |-> 0,
     delayed_success |-> FALSE,
     bid |-> 1, chunks_submitted |-> {}, first_sweep |-> NONE,
     n_orders |-> 0, requeried |-> NONE, rejections |-> 0,
     rpc_failures |-> 0, late_fills |-> 0, partial_fills |-> 0,
     result |-> [success |-> FALSE, filled_size |-> 0,
                 total_spent_usd |-> 0, error |-> "NONE",
                 remaining_balance |-> 0]]

\* a position as enter_position_contracts creates it
EmptyPosition ==
    [UP   |-> [total_shares |-> 0, total_invested |-> 0, entries |-> 0],
     DOWN |-> [total_shares |-> 0, total_invested |-> 0, entries |-> 0]]

NoEntry == [kind |-> "none", slug |-> <<"btc", 1>>, side |-> "UP",
            shares |-> 0, size_usd |-> 0]

\* a variant of the registry lookup that finds no market blocked
NoMarketBlocked(slug, coin) == FALSE

\* ------------------------------------------------------------------------
\* order_executor.py : block registry and closing callback
\* ------------------------------------------------------------------------
\* OrderExecutor.is_market_blocked(market_slug, coin)
is_market_blocked(slug, coin) ==
    coin \in DOMAIN blocked_markets /\ slug \in blocked_markets[coin]

\* market_start_prices[coin].get(slug, default)
StatusOf(coin, slug, default) ==
    IF slug \in DOMAIN market_start_prices[coin]
    THEN market_start_prices[coin][slug] ELSE default

\* main.is_market_closing(market_slug, coin), the registered callback
is_market_closing(slug, coin) == StatusOf(coin, slug, ST_UNTRACKED) = ST_CLOSING

\* ------------------------------------------------------------------------
\* safety_guard.py
\* ------------------------------------------------------------------------
\* SafetyGuard.check_order_allowed: the reason, "OK" when allowed
check_order_allowed(contracts, price, slug) ==
    IF emergency_stop THEN "EMERGENCY_STOP_ACTIVE"
    ELSE IF dry_run THEN "DRY_RUN_MODE"
    ELSE IF contracts * price > max_order_size_usd THEN "ORDER_TOO_LARGE"
    ELSE IF orders_history >= max_orders_per_minute THEN "RATE_LIMIT"
    ELSE IF invested_per_market[slug] + Notional(contracts * price)
              > Notional(max_total_investment) THEN "INVESTMENT_LIMIT"
    ELSE "OK"

\* ------------------------------------------------------------------------
\* trader.py : enter_position_contracts
\* ------------------------------------------------------------------------
\* the tail of enter_position_contracts: create the position if needed and
\* add one entry of (shares, size_usd) to the side
RecordEntry(t, slug, side, shares, size_usd, kind) ==
    LET old == IF slug \in DOMAIN positions THEN positions[slug]
               ELSE EmptyPosition
        new == [old EXCEPT
                  ![side].total_shares = @ + shares,
                  ![side].total_invested = @ + size_usd,
                  ![side].entries = @ + 1]
    IN  /\ positions' = [s \in DOMAIN positions \cup {slug} |->
                           IF s = slug THEN new ELSE positions[s]]
        /\ last_entry' = [kind |-> kind, slug |-> slug, side |-> side,
                          shares |-> shares, size_usd |-> size_usd]

\* locals of a thread after enter_position_contracts has returned value:
\* the arguments and the buy result stay visible, the rest is gone
Returned(l, value) ==
    [NoLocals EXCEPT !.slug = l.slug, !.side = l.side,
       !.contracts = l.contracts, !.result = l.result, !.ret = value]

\* enter_position_contracts up to the call of place_buy_order
EnterBegin(t, slug, side, price, contracts, up_ask, down_ask) ==
    LET ask_price == IF side = "UP" THEN up_ask ELSE down_ask
        args == [NoLocals EXCEPT !.slug = slug, !.side = side,
                   !.price = price, !.contracts = contracts,
                   !.ask_price = ask_price]
    IN  IF contracts = 0
        THEN /\ pc' = [pc EXCEPT ![t] = "idle"]
             /\ loc' = [loc EXCEPT ![t] = Returned(args, "True")]
             /\ UNCHANGED <<positions, last_entry>>
        ELSE IF order_executor /\ slug \in token_ids_cache /\ ask_price # 0
        THEN /\ pc' = [pc EXCEPT ![t] = "pbo_safety"]
             /\ loc' = [loc EXCEPT ![t] = args]
             /\ UNCHANGED <<positions, last_entry>>
        ELSE /\ pc' = [pc EXCEPT ![t] = "idle"]
             /\ loc' = [loc EXCEPT ![t] = Returned(args, "True")]
             /\ RecordEntry(t, slug, side, Milli(contracts),
                            Milli(contracts) * price, "requested")

\* a variant that never treats a buy result as rejected
BuyRejectedNever(r) == FALSE

\* the buy failed and was no dry run: enter_position_contracts returns False
BuyRejected(r) == ~r.success /\ ~r.dry_run

\* enter_position_contracts after place_buy_order has returned
EnterResult(t) ==
    LET l == loc[t]
        r == l.result
    IN  /\ pc[t] = "epc_result"
        /\ pc' = [pc EXCEPT ![t] = "idle"]
        /\ loc' = [loc EXCEPT ![t] =
                     Returned(l, IF ~r.success /\ BuyRejected(r)
                                 THEN "False" ELSE "True")]
        /\ IF r.success
           THEN RecordEntry(t, l.slug, l.side, r.filled_size,
                            r.total_spent_usd,
                            IF r.dry_run THEN "dry_run" ELSE "filled")
           ELSE IF BuyRejected(r)
           THEN UNCHANGED <<positions, last_entry>>
           ELSE RecordEntry(t, l.slug, l.side, Milli(l.contracts),
                            Milli(l.contracts) * l.price, "requested")
        /\ UNCHANGED <<exitVars, cfgVars, safetyVars, marketVars, sv, chain_balance>>

\* ------------------------------------------------------------------------
\* order_executor.py : place_buy_order
\* ------------------------------------------------------------------------
\* place_buy_order returns result r to enter_position_contracts
BuyReturn(t, r) ==
    /\ pc' = [pc EXCEPT ![t] = "epc_result"]
    /\ loc' = [loc EXCEPT ![t].result = r]

BuyFailure(reason) == [NoResult EXCEPT !.error = reason]

\* a variant of the safety check that lets a denied order through
PboSafetyIgnoresDenial(t) ==
    LET l == loc[t]
        reason == check_order_allowed(l.contracts, l.ask_price, l.slug)
    IN  /\ pc[t] = "pbo_safety"
        /\ IF reason = "DRY_RUN_MODE"
           THEN BuyReturn(t, [success |-> TRUE,
                              filled_size |-> Milli(l.contracts),
                              total_spent_usd |->
                                  Notional(l.contracts * l.ask_price),
                              dry_run |-> TRUE, error |-> "NONE"])
           ELSE /\ pc' = [pc EXCEPT ![t] = "pbo_blocked"]
                /\ loc' = [loc EXCEPT
                     ![t].normalized_price =
                         CeilDiv(l.ask_price * (100 + SLIPPAGE_BUY), 100),
                     ![t].total_filled_contracts = 0,
                     ![t].total_spent_usd = 0]
        /\ UNCHANGED <<traderVars, cfgVars, safetyVars, marketVars, sv, chain_balance>>

\* the safety check at the head of place_buy_order
PboSafety(t) ==
    LET l == loc[t]
        reason == check_order_allowed(l.contracts, l.ask_price, l.slug)
    IN  /\ pc[t] = "pbo_safety"
        /\ IF reason = "DRY_RUN_MODE"
           THEN BuyReturn(t, [success |-> TRUE,
                              filled_size |-> Milli(l.contracts),
                              total_spent_usd |->
                                  Notional(l.contracts * l.ask_price),
                              dry_run |-> TRUE, error |-> "NONE"])
           ELSE IF reason # "OK"
           THEN BuyReturn(t, BuyFailure(reason))
           ELSE /\ pc' = [pc EXCEPT ![t] = "pbo_blocked"]
                /\ loc' = [loc EXCEPT
                     ![t].normalized_price =
                         CeilDiv(l.ask_price * (100 + SLIPPAGE_BUY), 100),
                     ![t].total_filled_contracts = 0,
                     ![t].total_spent_usd = 0]
        /\ UNCHANGED <<traderVars, cfgVars, safetyVars, marketVars, sv, chain_balance>>

\* the blocked-registry check before the FAK loop
PboBlocked(t) ==
    LET l == loc[t]
    IN  /\ pc[t] = "pbo_blocked"
        /\ IF is_market_blocked(l.slug, CoinOf(l.slug))
           THEN BuyReturn(t, BuyFailure("MARKET_BLOCKED_FOR_COIN"))
           ELSE /\ pc' = [pc EXCEPT ![t] = "pbo_closing"]
                /\ loc' = loc
        /\ UNCHANGED <<traderVars, cfgVars, safetyVars, marketVars, sv, chain_balance>>

\* the closing-callback check before the FAK loop
PboClosing(t) ==
    LET l == loc[t]
    IN  /\ pc[t] = "pbo_closing"
        /\ IF is_market_closing(l.slug, CoinOf(l.slug))
           THEN BuyReturn(t,
                    BuyFailure("MARKET_CLOSING_RACE_CONDITION_BLOCKED"))
           ELSE /\ pc' = [pc EXCEPT ![t] = "fak_blocked"]
                /\ loc' = [loc EXCEPT ![t].fak_attempt = 1]
        /\ UNCHANGED <<traderVars, cfgVars, safetyVars, marketVars, sv, chain_balance>>

\* the blocked-registry check at the head of one FAK attempt; block_seen
\* is history: the attempt before which the market was found in the
\* registry or closing
FakBlocked(t) ==
    LET l == loc[t]
    IN  /\ pc[t] = "fak_blocked"
        /\ pc' = [pc EXCEPT ![t] =
                    IF is_market_blocked(l.slug, CoinOf(l.slug))
                    THEN "pbo_return" ELSE "fak_closing"]
        /\ loc' = [loc EXCEPT ![t].block_seen =
                    IF l.slug \in blocked_markets[CoinOf(l.slug)]
                    THEN l.fak_attempt ELSE @]
        /\ UNCHANGED <<traderVars, cfgVars, safetyVars, marketVars, sv, chain_balance>>

\* round(remaining_contracts, 2), in milli-contracts
OrderSize(remaining_contracts) == RoundDiv(remaining_contracts, 10) * 10

\* a variant of the attempt that goes on although the target is reached
FakClosingPastTarget(t) ==
    LET l == loc[t]
        target_contracts == Milli(l.contracts)
        remaining_contracts == target_contracts - l.total_filled_contracts
        order_size_usd ==
            RoundDiv(remaining_contracts * l.normalized_price, 1000)
        stop == \/ is_market_closing(l.slug, CoinOf(l.slug))
                \/ remaining_contracts <= 10
                \/ order_size_usd < MIN_ORDER_USD
    IN  /\ pc[t] = "fak_closing"
        /\ IF stop
           THEN /\ pc' = [pc EXCEPT ![t] = "pbo_return"]
                /\ loc' = [loc EXCEPT ![t].block_seen =
                      IF StatusOf(CoinOf(l.slug), l.slug, ST_UNTRACKED)
                            = ST_CLOSING
                      THEN l.fak_attempt ELSE @]
           ELSE /\ pc' = [pc EXCEPT ![t] = "fak_post"]
                /\ loc' = [loc EXCEPT
                     ![t].order_size = OrderSize(remaining_contracts)]
        /\ UNCHANGED <<traderVars, cfgVars, safetyVars, marketVars, sv, chain_balance>>

\* a variant of the attempt that posts a remainder worth less than the minimum
FakClosingBelowMinimum(t) ==
    LET l == loc[t]
        target_contracts == Milli(l.contracts)
        remaining_contracts == target_contracts - l.total_filled_contracts
        stop == \/ is_market_closing(l.slug, CoinOf(l.slug))
                \/ remaining_contracts <= 10
                \/ l.total_filled_contracts * 100
                       >= target_contracts * TARGET_FILL_PERCENT
    IN  /\ pc[t] = "fak_closing"
        /\ IF stop
           THEN /\ pc' = [pc EXCEPT ![t] = "pbo_return"]
                /\ loc' = [loc EXCEPT ![t].block_seen =
                      IF StatusOf(CoinOf(l.slug), l.slug, ST_UNTRACKED)
                            = ST_CLOSING
                      THEN l.fak_attempt ELSE @]
           ELSE /\ pc' = [pc EXCEPT ![t] = "fak_post"]
                /\ loc' = [loc EXCEPT
                     ![t].order_size = OrderSize(remaining_contracts)]
        /\ UNCHANGED <<traderVars, cfgVars, safetyVars, marketVars, sv, chain_balance>>

\* the closing-callback check of one FAK attempt and the sizing of its order
FakClosing(t) ==
    LET l == loc[t]
        target_contracts == Milli(l.contracts)
        remaining_contracts == target_contracts - l.total_filled_contracts
        order_size_usd ==
            RoundDiv(remaining_contracts * l.normalized_price, 1000)
        stop == \/ is_market_closing(l.slug, CoinOf(l.slug))
                \/ remaining_contracts <= 10
                \/ l.total_filled_contracts * 100
                       >= target_contracts * TARGET_FILL_PERCENT
                \/ order_size_usd < MIN_ORDER_USD
    IN  /\ pc[t] = "fak_closing"
        /\ IF stop
           THEN /\ pc' = [pc EXCEPT ![t] = "pbo_return"]
                /\ loc' = [loc EXCEPT ![t].block_seen =
                      IF StatusOf(CoinOf(l.slug), l.slug, ST_UNTRACKED)
                            = ST_CLOSING
                      THEN l.fak_attempt ELSE @]
           ELSE /\ pc' = [pc EXCEPT ![t] = "fak_post"]
                /\ loc' = [loc EXCEPT
                     ![t].order_size = OrderSize(remaining_contracts)]
        /\ UNCHANGED <<traderVars, cfgVars, safetyVars, marketVars, sv, chain_balance>>

\* SafetyGuard.record_order(contracts, price, market_slug)
record_order(contracts, price, slug) ==
    /\ orders_history' = orders_history + 1
    /\ invested_per_market' =
           [invested_per_market EXCEPT ![slug] = @ + contracts * price]

\* the FAK order of one attempt is posted; the venue answers success with
\* takingAmount / makingAmount, or answers failure (the failure branch
\* raises NameError on sell_price, caught by the attempt's except clause);
\* late_orders is history: the orders of this call that were posted while
\* the market was in the blocked registry; posted is history: the orders
\* this call has posted
FakPost(t, ok, taking_amount, making_amount) ==
    LET l == loc[t]
        late == IF l.slug \in blocked_markets[CoinOf(l.slug)] THEN 1 ELSE 0
    IN  /\ pc[t] = "fak_post"
        /\ IF ok
           THEN /\ loc' = [loc EXCEPT
                     ![t].total_filled_contracts = @ + taking_amount,
                     ![t].total_spent_usd = @ + making_amount,
                     ![t].reports = Append(@, <<taking_amount, making_amount>>),
                     ![t].late_orders = @ + late,
                     ![t].posted = @ + 1,
                     ![t].fak_attempt = @ + 1]
                /\ record_order(taking_amount, l.normalized_price, l.slug)
                /\ chain_balance' = [chain_balance EXCEPT
                       ![<<l.slug, l.side>>] = @ + taking_amount]
           ELSE /\ loc' = [loc EXCEPT ![t].fak_attempt = @ + 1,
                                       ![t].posted = @ + 1,
                                       ![t].late_orders = @ + late]
                /\ UNCHANGED <<orders_history, invested_per_market,
                               chain_balance>>
        /\ pc' = [pc EXCEPT ![t] =
                    IF l.fak_attempt < MAX_FAK_ATTEMPTS
                    THEN "fak_blocked" ELSE "pbo_return"]
        /\ UNCHANGED <<traderVars, cfgVars, marketVars, sv>>

\* a variant of the result that reports no fill whatever was bought
NoFillResult(total_filled_contracts, total_spent_usd) ==
    BuyFailure("NO_FILL_AFTER_FAK")

\* the OrderResult built after the FAK loop
BuyResult(total_filled_contracts, total_spent_usd) ==
    IF total_filled_contracts > 0
    THEN [success |-> TRUE, filled_size |-> total_filled_contracts,
          total_spent_usd |-> total_spent_usd, dry_run |-> FALSE,
          error |-> "NONE"]
    ELSE BuyFailure("NO_FILL_AFTER_FAK")

\* place_buy_order after the FAK loop
PboReturn(t) ==
    /\ pc[t] = "pbo_return"
    /\ BuyReturn(t, BuyResult(loc[t].total_filled_contracts,
                              loc[t].total_spent_usd))
    /\ UNCHANGED <<traderVars, cfgVars, safetyVars, marketVars, sv, chain_balance>>

\* ------------------------------------------------------------------------
\* Environment of the buy path
\* ------------------------------------------------------------------------
\* trader.set_token_ids, called by the data feed when it discovers a market
set_token_ids(slug) ==
    /\ slug \notin token_ids_cache
    /\ token_ids_cache' = token_ids_cache \cup {slug}
    /\ UNCHANGED <<pc, loc, traderVars, order_executor, emergency_stop,
                   dry_run, sweep_enable_fallback, rpc, redeem,
                   registry_call, safetyVars, marketVars, sv, chain_balance>>

\* a minute passes: no recorded order is younger than 60 s any more
OrdersExpire ==
    /\ orders_history > 0
    /\ orders_history' = 0
    /\ UNCHANGED <<pc, loc, traderVars, cfgVars, invested_per_market, marketVars, sv, chain_balance>>

\* a variant of block_market that leaves the registry as it is
BlockNothing(slug, coin) == UNCHANGED blocked_markets

\* a variant of block_market with one registry for all coins
BlockEveryCoin(slug, coin) ==
    blocked_markets' = [c \in COINS |-> blocked_markets[c] \cup {slug}]

\* OrderExecutor.block_market(market_slug, coin)
block_market(slug, coin) ==
    blocked_markets' = IF coin \in DOMAIN blocked_markets
                       THEN [blocked_markets EXCEPT ![coin] = @ \cup {slug}]
                       ELSE blocked_markets

\* OrderExecutor.unblock_market(market_slug, coin)
unblock_market(slug, coin) ==
    blocked_markets' = IF coin \in DOMAIN blocked_markets
                       THEN [blocked_markets EXCEPT ![coin] = @ \ {slug}]
                       ELSE blocked_markets

\* ------------------------------------------------------------------------
\* SpecBuy : one thread entering positions, the venue answering each order
\* ------------------------------------------------------------------------
\* number of entries a market receives in the buy specification
MaxEntries == 1

\* ask prices handed to the buy path, in cents; 0 is a missing (falsy) ask
AskPrices == {0, 50, 96}

\* fills the venue may report for a FAK order of the given size
BuyFills(order_size) == {f \in {4, order_size \div 2, order_size} :
                            f <= order_size}

\* markets the buy specification trades
BuySlugs == {s \in Slugs : s[2] = 1}

EntriesOf(slug) ==
    IF slug \in DOMAIN positions
    THEN positions[slug].UP.entries + positions[slug].DOWN.entries ELSE 0

RECURSIVE TotalEntries(_)
TotalEntries(S) ==
    IF S = {} THEN 0
    ELSE LET s == CHOOSE x \in S : TRUE
         IN  EntriesOf(s) + TotalEntries(S \ {s})

InitBuy ==
    /\ pc = [t \in Threads |-> "idle"]
    /\ loc = [t \in Threads |-> NoLocals]
    /\ positions = <<>>
    /\ closed_markets = {}
    /\ current_capital = [c \in COINS |-> 0]
    /\ closed_trades = [c \in COINS |-> <<>>]
    /\ lock = [c \in COINS |-> 0]
    /\ token_ids_cache = {}
    /\ order_executor \in BOOLEAN
    /\ emergency_stop \in BOOLEAN
    /\ dry_run \in BOOLEAN
    /\ sweep_enable_fallback = FALSE
    /\ rpc = NoRpc
    /\ redeem = NoRedeem
    /\ registry_call = NoCall
    /\ orders_history = 0
    /\ invested_per_market = [s \in Slugs |-> 0]
    /\ blocked_markets = [c \in COINS |-> {}]
    /\ market_start_prices = [c \in COINS |-> (<<c, 1>> :> 50)]
    /\ last_entry = NoEntry
    /\ witnessed_market_switch = [c \in COINS |-> FALSE]
    /\ feed_slug = [c \in COINS |-> <<c, 1>>]
    /\ mv = NoMain
    /\ hist = NoHist
    /\ sv = [t \in Threads |-> NoSell]
    /\ chain_balance = [k \in Tokens |-> 0]

\* MultiTrader.enter_position -> Trader.enter_position_contracts
EnterPosition(t) ==
    /\ pc[t] = "idle"
    /\ \E slug \in BuySlugs, side \in Sides, contracts \in 0..MaxContracts,
          up_ask \in AskPrices, down_ask \in AskPrices :
          /\ TotalEntries(Slugs) < MaxEntries
          /\ EnterBegin(t, slug, side, 50, contracts, up_ask, down_ask)
    /\ UNCHANGED <<exitVars, cfgVars, safetyVars, marketVars, sv, chain_balance>>

\* the venue's answer to the posted FAK order
VenueBuy(t) ==
    \E ok \in BOOLEAN, taking_amount \in BuyFills(loc[t].order_size),
       p \in {loc[t].ask_price, loc[t].normalized_price} :
       /\ ok \/ taking_amount = loc[t].order_size
       /\ FakPost(t, ok, taking_amount, taking_amount * p)

\* an exit trigger of another thread marks the market closing and blocks it
ExitElsewhere ==
    /\ \E slug \in BuySlugs :
          /\ slug \notin blocked_markets[CoinOf(slug)]
          /\ market_start_prices' =
                 [market_start_prices EXCEPT ![CoinOf(slug)][slug] = ST_CLOSING]
          /\ block_market(slug, CoinOf(slug))
    /\ UNCHANGED <<pc, loc, traderVars, cfgVars, safetyVars, loopVars, sv,
                   chain_balance>>

NextBuy ==
    \/ EnterPosition(1)
    \/ EnterResult(1)
    \/ PboSafety(1)
    \/ PboBlocked(1)
    \/ PboClosing(1)
    \/ FakBlocked(1)
    \/ FakClosing(1)
    \/ VenueBuy(1)
    \/ PboReturn(1)
    \/ \E slug \in BuySlugs : set_token_ids(slug)
    \/ OrdersExpire
    \/ ExitElsewhere

SpecBuy == InitBuy /\ [][NextBuy]_vars

\* ------------------------------------------------------------------------
\* Properties of the buy path (checked under SpecBuy)
\* ------------------------------------------------------------------------
\* sum of the venue-reported fills / notionals of the attempts of one call
SumTaking(reports) == SumSeq([i \in 1..Len(reports) |-> reports[i][1]])
SumMaking(reports) == SumSeq([i \in 1..Len(reports) |-> reports[i][2]])

\* C5: a live place_buy_order returns filled_size equal to the sum of the
\* venue-reported fills of its attempts and total_spent_usd equal to the sum
\* of their notionals, and filled_size never exceeds the requested target.
C5_FilledWithinTarget ==
    \A t \in Threads :
        (pc[t] = "epc_result" /\ loc[t].result.success
           /\ ~loc[t].result.dry_run)
        => /\ loc[t].result.filled_size = SumTaking(loc[t].reports)
           /\ loc[t].result.total_spent_usd = SumMaking(loc[t].reports)
           /\ loc[t].result.filled_size <= Milli(loc[t].contracts)

\* the part of C5 that the code keeps: the result is the sum of the reports
C5_ResultIsSumOfReports ==
    \A t \in Threads :
        (pc[t] = "epc_result" /\ loc[t].result.success
           /\ ~loc[t].result.dry_run)
        => /\ loc[t].result.filled_size = SumTaking(loc[t].reports)
           /\ loc[t].result.total_spent_usd = SumMaking(loc[t].reports)

\* C6: when the buy call made by enter_position_contracts reports failure,
\* the step that handles the result creates no position, appends no entry
\* and leaves every side's contracts and invested totals unchanged.
C6_FailedBuyLeavesLedger ==
    [][\A t \in Threads :
          (pc[t] = "epc_result" /\ ~loc[t].result.success /\ pc'[t] = "idle")
          => (positions' = positions /\ loc'[t].ret = "False")]_vars

\* a buy that failed after real FAK attempts has been handled: the caller
\* got False and the market has no position
C6_Witness ==
    \E t \in Threads :
        /\ pc[t] = "idle"
        /\ loc[t].ret = "False"
        /\ loc[t].result.error = "NO_FILL_AFTER_FAK"
        /\ loc[t].slug \notin DOMAIN positions

\* C7: with an order executor wired, every increment of a side's contracts
\* and invested is the filled size and spend of a successful buy result,
\* never the requested contracts x price.
C7_IncrementsAreFills ==
    order_executor => last_entry.kind # "requested"

\* the two errors place_buy_order returns only for a blocked market
BlockErrors == {"MARKET_BLOCKED_FOR_COIN",
                "MARKET_CLOSING_RACE_CONDITION_BLOCKED"}

\* C13 as stated: once a check before attempt k has reported a block, no
\* order is submitted for attempt k or any later attempt, and the call
\* returns a block error, which is not the no-fill error.
C13_BlockReturnsBlockError ==
    \A t \in Threads :
        loc[t].block_seen > 0
        => /\ pc[t] \in {"pbo_return", "epc_result"}
           /\ pc[t] = "epc_result"
                 => /\ ~loc[t].result.success
                    /\ loc[t].result.error \in BlockErrors

\* C13 amended: a block found by the checks before the loop returns the
\* block error of that check; a block found by the checks at the head of
\* attempt k ends the loop without another order, and the call returns
\* what the loop has accumulated: success with the fills of the earlier
\* attempts, or the no-fill error if there were none.
C13_BlockStopsAttempts ==
    [][\A t \in Threads :
          LET l == loc[t]
              coin == CoinOf(l.slug)
              blocked == l.slug \in blocked_markets[coin]
              closing == StatusOf(coin, l.slug, ST_UNTRACKED) = ST_CLOSING
              r == loc'[t].result
          IN  pc'[t] # pc[t] =>
                /\ (pc[t] = "pbo_blocked" /\ blocked)
                      => /\ pc'[t] = "epc_result"
                         /\ ~r.success
                         /\ r.error = "MARKET_BLOCKED_FOR_COIN"
                /\ (pc[t] = "pbo_closing" /\ closing)
                      => /\ pc'[t] = "epc_result"
                         /\ ~r.success
                         /\ r.error = "MARKET_CLOSING_RACE_CONDITION_BLOCKED"
                /\ (pc[t] = "fak_blocked" /\ blocked)
                      => pc'[t] = "pbo_return"
                /\ (pc[t] = "fak_closing" /\ closing)
                      => pc'[t] = "pbo_return"
                /\ (pc[t] = "pbo_return" /\ l.block_seen > 0)
                      => /\ pc'[t] = "epc_result"
                         /\ IF SumTaking(l.reports) > 0
                            THEN /\ r.success
                                 /\ r.filled_size = SumTaking(l.reports)
                            ELSE /\ ~r.success
                                 /\ r.error = "NO_FILL_AFTER_FAK"]_vars

\* a call whose first attempt was filled in part found the market blocked
\* before a later attempt and returned the fill as a success
C13_Witness ==
    \E t \in Threads :
        /\ pc[t] = "epc_result"
        /\ loc[t].block_seen > 1
        /\ loc[t].result.success
        /\ loc[t].result.filled_size > 0
        /\ Len(loc[t].reports) = loc[t].block_seen - 1

\* ------------------------------------------------------------------------
\* safety_guard.py : the guard's denials at the head of place_buy_order
\* ------------------------------------------------------------------------
\* the larger of the two order sizes requested, in contracts
GuardContracts == 4
\* the amount already invested in a market when the call arrives, in cents
GuardInvested == 402

\* a live or dry-run executor with cached token ids; the guard has seen
\* no order or a full minute's worth, and nothing or GuardInvested is
\* invested in each market
InitGuard ==
    /\ pc = [t \in Threads |-> "idle"]
    /\ loc = [t \in Threads |-> NoLocals]
    /\ positions = <<>>
    /\ closed_markets = {}
    /\ current_capital = [c \in COINS |-> 0]
    /\ closed_trades = [c \in COINS |-> <<>>]
    /\ lock = [c \in COINS |-> 0]
    /\ token_ids_cache = BuySlugs
    /\ order_executor = TRUE
    /\ emergency_stop \in BOOLEAN
    /\ dry_run \in BOOLEAN
    /\ sweep_enable_fallback = FALSE
    /\ rpc = NoRpc
    /\ redeem = NoRedeem
    /\ registry_call = NoCall
    /\ orders_history \in {0, max_orders_per_minute}
    /\ \E invested \in {0, Notional(GuardInvested)} :
          invested_per_market = [s \in Slugs |-> invested]
    /\ blocked_markets = [c \in COINS |-> {}]
    /\ market_start_prices = [c \in COINS |-> (<<c, 1>> :> 50)]
    /\ last_entry = NoEntry
    /\ witnessed_market_switch = [c \in COINS |-> FALSE]
    /\ feed_slug = [c \in COINS |-> <<c, 1>>]
    /\ mv = NoMain
    /\ hist = NoHist
    /\ sv = [t \in Threads |-> NoSell]
    /\ chain_balance = [k \in Tokens |-> 0]

\* MultiTrader.enter_position -> Trader.enter_position_contracts
GuardEnter(t) ==
    /\ pc[t] = "idle"
    /\ \E slug \in BuySlugs, side \in Sides,
          contracts \in {1, GuardContracts},
          up_ask \in AskPrices, down_ask \in AskPrices :
          /\ TotalEntries(Slugs) < MaxEntries
          /\ EnterBegin(t, slug, side, 50, contracts, up_ask, down_ask)
    /\ UNCHANGED <<exitVars, cfgVars, safetyVars, marketVars, sv, chain_balance>>

NextGuard ==
    \/ GuardEnter(1)
    \/ EnterResult(1)
    \/ PboSafety(1)
    \/ PboBlocked(1)
    \/ PboClosing(1)
    \/ FakBlocked(1)
    \/ FakClosing(1)
    \/ VenueBuy(1)
    \/ PboReturn(1)
    \/ OrdersExpire
    \/ ExitElsewhere

SpecGuard == InitGuard /\ [][NextGuard]_vars

\* the reasons for which the guard denies a live order
DenialReasons ==
    {"EMERGENCY_STOP_ACTIVE", "ORDER_TOO_LARGE", "RATE_LIMIT",
     "INVESTMENT_LIMIT"}

\* C17: when the safety guard denies a buy, place_buy_order returns at
\* once with success=False and the guard's reason: no FAK attempt is
\* started, no order reaches the venue, and the guard's order history and
\* invested amounts and the wallet are unchanged.
C17_DenialSubmitsNothing ==
    [][\A t \in Threads :
          LET l == loc[t]
              reason == check_order_allowed(l.contracts, l.ask_price, l.slug)
              r == loc'[t].result
          IN  (pc[t] = "pbo_safety" /\ pc'[t] # pc[t]
                  /\ reason \in DenialReasons)
              => /\ pc'[t] = "epc_result"
                 /\ ~r.success
                 /\ ~r.dry_run
                 /\ r.error = reason
                 /\ r.filled_size = 0
                 /\ r.total_spent_usd = 0
                 /\ loc'[t].fak_attempt = 0
                 /\ loc'[t].reports = <<>>
                 /\ UNCHANGED <<orders_history, invested_per_market,
                                chain_balance, positions>>]_vars

\* each of the four denials has been returned to a caller: the thread is
\* back in enter_position_contracts with the failure and no order sent
GuardDenied(reason) ==
    \E t \in Threads :
        /\ pc[t] = "epc_result"
        /\ loc[t].result.error = reason
        /\ ~loc[t].result.success
        /\ loc[t].fak_attempt = 0

\* a buy denied for the rate limit has returned with no order sent
C17_Witness == GuardDenied("RATE_LIMIT")

\* C29: the invested amount the guard records for a market never exceeds
\* max_total_investment, and no order handed to the venue is worth more than
\* max_order_size_usd, whatever sequence of buys the market receives.
C29_GuardLimitsHold ==
    /\ \A slug \in Slugs :
          invested_per_market[slug] <= Notional(max_total_investment)
    /\ \A t \in Threads :
          pc[t] = "fak_post"
          => loc[t].order_size * loc[t].normalized_price
                <= Notional(max_order_size_usd)

\* what the guard does keep: a call is admitted only if its contracts at the
\* ask price fit both limits at the moment of the check
GuardAdmitsAtAskPrice ==
    [][\A t \in Threads :
          (pc[t] = "pbo_safety" /\ pc'[t] = "pbo_blocked")
          => /\ loc[t].contracts * loc[t].ask_price <= max_order_size_usd
             /\ invested_per_market[loc[t].slug]
                   + Notional(loc[t].contracts * loc[t].ask_price)
                   <= Notional(max_total_investment)]_vars

\* ------------------------------------------------------------------------
\* order_executor.py : sell_position
\* ------------------------------------------------------------------------
Min(a, b) == IF a < b THEN a ELSE b

\* get_blockchain_token_balance: the balance, or None when every RPC fails;
\* in dry-run mode it returns 0.0 without asking
BalanceQuery(token) ==
    IF dry_run THEN {0} ELSE {chain_balance[token], NONE}

\* the chunk list built from the initial balance
RECURSIVE Chunking(_)
Chunking(remaining) ==
    IF remaining > MIN_DUST_THRESHOLD
    THEN LET chunk == Min(Milli(CHUNK_SIZE), remaining)
         IN  <<chunk>> \o Chunking(remaining - chunk)
    ELSE <<>>

\* the chunk the stage turns to after chunk i of n is done (sold or failed)
NextChunkStopOnFailure(i, n, chunk_sold) == IF chunk_sold THEN i + 1 ELSE n + 1
\* a variant that offers a chunk again until the venue takes it
NextChunkUntilSold(i, n, chunk_sold) == IF chunk_sold THEN i + 1 ELSE i
NextChunk(i, n, chunk_sold) == i + 1

SellReturn(t, r) ==
    /\ pc' = [pc EXCEPT ![t] = "sell_returned"]
    /\ sv' = [sv EXCEPT ![t].result = r]

\* STEP 1-2: initial balance query, zero check, chunk list
SellBegin(t, token, q, bid) ==
    LET chunks == Chunking(q)
        fresh == [NoSell EXCEPT !.token = token, !.initial_balance = q,
                    !.bid = bid,
                    !.chunks = chunks, !.i = 1, !.attempt = 1,
                    !.rpc_failures = IF q = NONE THEN 1 ELSE 0]
    IN  IF q = NONE
        THEN /\ pc' = [pc EXCEPT ![t] = "sell_returned"]
             /\ sv' = [sv EXCEPT ![t] = [fresh EXCEPT
                    !.result = [NoSell.result EXCEPT
                       !.error = "RPC_UNAVAILABLE_CANNOT_GET_BALANCE"]]]
        ELSE IF q < MIN_DUST_THRESHOLD
        THEN /\ pc' = [pc EXCEPT ![t] = "sell_returned"]
             /\ sv' = [sv EXCEPT ![t] = [fresh EXCEPT
                    !.result = [NoSell.result EXCEPT !.success = TRUE,
                       !.error = "BALANCE_ALREADY_ZERO"]]]
        ELSE /\ pc' = [pc EXCEPT ![t] =
                         IF chunks = <<>> THEN "sp_requery" ELSE "sp_chunk"]
             /\ sv' = [sv EXCEPT ![t] = fresh]

\* STEP 3: one FOK attempt for chunk i; filled is the venue's answer and
\* received the USD it reports
ChunkAttempt(t, filled, received) ==
    LET s == sv[t]
        chunk == s.chunks[s.i]
        n == Len(s.chunks)
        done == filled \/ s.attempt = MAX_CHUNK_RETRIES
        next == IF done THEN NextChunk(s.i, n, filled) ELSE s.i
    IN  /\ pc[t] = "sp_chunk"
        /\ filled => chunk <= chain_balance[s.token]
        /\ sv' = [sv EXCEPT
              ![t].total_sold = IF filled THEN @ + chunk ELSE @,
              ![t].total_received_usd = IF filled THEN @ + received ELSE @,
              ![t].failed_chunks =
                  IF ~filled /\ done THEN @ \cup {s.i} ELSE @,
              ![t].rejections = IF filled THEN @ ELSE @ + 1,
              ![t].chunks_submitted = @ \cup {s.i},
              ![t].n_orders = @ + 1,
              ![t].i = next,
              ![t].attempt = IF done THEN 1 ELSE @ + 1]
        /\ chain_balance' = IF filled
              THEN [chain_balance EXCEPT ![s.token] = @ - chunk]
              ELSE chain_balance
        /\ pc' = [pc EXCEPT ![t] = IF next > n THEN "sp_requery" ELSE @]
        /\ UNCHANGED <<loc, traderVars, cfgVars, safetyVars, marketVars>>

\* the sweep runs when more than dust is left after the chunk stage
NeedsSweep(final_balance) == final_balance > MIN_DUST_THRESHOLD

\* STEP 4: the balance is queried again after the chunk stage
SellRequery(t, q) ==
    LET s == sv[t]
        final_balance == IF q = NONE THEN s.initial_balance - s.total_sold
                         ELSE q
    IN  /\ pc[t] = "sp_requery"
        /\ sv' = [sv EXCEPT
              ![t].final_balance = final_balance,
              ![t].requeried = final_balance,
              ![t].rpc_failures = IF q = NONE THEN @ + 1 ELSE @,
              ![t].attempt = 1,
              ![t].sweep_success = FALSE]
        /\ pc' = [pc EXCEPT ![t] =
                    IF NeedsSweep(final_balance)
                    THEN "sp_sweep" ELSE "sp_delay"]
        /\ UNCHANGED <<loc, traderVars, cfgVars, safetyVars, marketVars,
                       chain_balance>>

\* a balance re-query that treats None as a cleared balance
OrZero(q) == IF q = NONE THEN 0 ELSE q

\* the venue sells `sold` of the token
Settle(token, sold) ==
    chain_balance' = [chain_balance EXCEPT ![token] = @ - sold]

\* STEP 4.5: one FOK sweep attempt of the whole final_balance, with the
\* balance re-query that follows it
SweepAttempt(t, filled, received, q) ==
    LET s == sv[t]
        size == s.final_balance
        last == s.attempt = SWEEP_MAX_ATTEMPTS
        requery == filled \/ (~last /\ ~s.sweep_success)
        balance == IF ~requery THEN size
                   ELSE IF filled THEN OrZero(q) ELSE q
        stop == \/ last
                \/ requery /\ (q = NONE \/ balance < MIN_DUST_THRESHOLD)
    IN  /\ pc[t] = "sp_sweep"
        /\ filled => size <= chain_balance[s.token]
        /\ sv' = [sv EXCEPT
              ![t].total_sold = IF filled THEN @ + size ELSE @,
              ![t].total_received_usd = IF filled THEN @ + received ELSE @,
              ![t].sweep_success = @ \/ filled,
              ![t].rejections = IF filled THEN @ ELSE @ + 1,
              ![t].rpc_failures =
                  IF requery /\ q = NONE THEN @ + 1 ELSE @,
              ![t].first_sweep = IF @ = NONE THEN size ELSE @,
              ![t].n_orders = @ + 1,
              ![t].final_balance = balance,
              ![t].attempt = IF stop THEN 1 ELSE @ + 1]
        /\ IF filled THEN Settle(s.token, size) ELSE UNCHANGED chain_balance
        /\ pc' = [pc EXCEPT ![t] = IF stop THEN "sp_sweep_final" ELSE @]
        /\ UNCHANGED <<loc, traderVars, cfgVars, safetyVars, marketVars>>

\* the balance query after the sweep loop, and the choice of the fallback
SweepFinal(t, q) ==
    LET s == sv[t]
        final_balance == OrZero(q)
    IN  /\ pc[t] = "sp_sweep_final"
        /\ sv' = [sv EXCEPT
              ![t].final_balance = final_balance,
              ![t].rpc_failures = IF q = NONE THEN @ + 1 ELSE @]
        /\ pc' = [pc EXCEPT ![t] =
                    IF /\ sweep_enable_fallback
                       /\ ~s.sweep_success
                       /\ final_balance > MIN_DUST_THRESHOLD
                    THEN "sp_fb_fak" ELSE "sp_delay"]
        /\ UNCHANGED <<loc, traderVars, cfgVars, safetyVars, marketVars,
                       chain_balance>>

\* sweep fallback: one FAK attempt of final_balance, fill is what it sold
FallbackFak(t, fill, received, q) ==
    LET s == sv[t]
        size == s.final_balance
        cleared == fill > 0 /\ (q = NONE \/ q < MIN_DUST_THRESHOLD)
        balance == IF fill = 0 THEN size ELSE IF cleared THEN 0 ELSE q
        stop == cleared \/ s.attempt = SWEEP_FAK_ATTEMPTS
    IN  /\ pc[t] = "sp_fb_fak"
        /\ fill <= Min(size, chain_balance[s.token])
        /\ sv' = [sv EXCEPT
              ![t].total_sold = @ + fill,
              ![t].total_received_usd = IF fill > 0 THEN @ + received ELSE @,
              ![t].rejections = IF fill > 0 THEN @ ELSE @ + 1,
              ![t].partial_fills =
                  IF 0 < fill /\ fill < size THEN @ + 1 ELSE @,
              ![t].rpc_failures =
                  IF fill > 0 /\ q = NONE THEN @ + 1 ELSE @,
              ![t].n_orders = @ + 1,
              ![t].final_balance = balance,
              ![t].attempt = IF stop THEN 1 ELSE @ + 1]
        /\ Settle(s.token, fill)
        /\ pc' = [pc EXCEPT ![t] =
                    IF ~stop THEN @
                    ELSE IF balance > MIN_DUST_THRESHOLD THEN "sp_fb_gtc"
                    ELSE "sp_delay"]
        /\ UNCHANGED <<loc, traderVars, cfgVars, safetyVars, marketVars>>

\* sweep fallback: the standing (GTC) order for what FAK left
FallbackGtc(t, fill, received, q) ==
    LET s == sv[t]
        size == s.final_balance
    IN  /\ pc[t] = "sp_fb_gtc"
        /\ fill <= Min(size, chain_balance[s.token])
        /\ sv' = [sv EXCEPT
              ![t].total_sold = @ + fill,
              ![t].total_received_usd = IF fill > 0 THEN @ + received ELSE @,
              ![t].rejections = IF fill > 0 THEN @ ELSE @ + 1,
              ![t].partial_fills =
                  IF 0 < fill /\ fill < size THEN @ + 1 ELSE @,
              ![t].rpc_failures =
                  IF fill > 0 /\ q = NONE THEN @ + 1 ELSE @,
              ![t].n_orders = @ + 1,
              ![t].final_balance = IF fill > 0 THEN OrZero(q) ELSE size]
        /\ Settle(s.token, fill)
        /\ pc' = [pc EXCEPT ![t] = "sp_delay"]
        /\ UNCHANGED <<loc, traderVars, cfgVars, safetyVars, marketVars>>

\* the delayed stage is over: its totals join the call's totals
DelayedFinish(s, sold, received, balance, success) ==
    [s EXCEPT !.total_sold = @ + sold,
              !.total_received_usd = @ + received,
              !.final_balance = balance,
              !.delayed_sold = 0, !.delayed_received = 0,
              !.delayed_balance = 0, !.delayed_success = success,
              !.attempt = 1]

\* delayed sweep: the balance query after the fixed delay
DelayedQuery(t, q) ==
    LET s == sv[t]
    IN  /\ pc[t] = "sp_delay"
        /\ IF q = NONE
           THEN /\ sv' = [sv EXCEPT ![t].rpc_failures = @ + 1]
                /\ pc' = [pc EXCEPT ![t] = "sp_report"]
           ELSE IF q > DELAYED_SWEEP_MIN_BALANCE
           THEN /\ sv' = [sv EXCEPT ![t].delayed_balance = q,
                             ![t].delayed_sold = 0,
                             ![t].delayed_received = 0,
                             ![t].delayed_success = FALSE,
                             ![t].attempt = 1]
                /\ pc' = [pc EXCEPT ![t] = "sp_d_fok"]
           ELSE /\ sv' = [sv EXCEPT ![t].final_balance = q]
                /\ pc' = [pc EXCEPT ![t] = "sp_report"]
        /\ UNCHANGED <<loc, traderVars, cfgVars, safetyVars, marketVars,
                       chain_balance>>

\* delayed sweep: one attempt of the given kind ("d_fok", "d_fak", "d_gtc")
\* for the whole delayed_balance; fill is what the venue sold
DelayedAttempt(t, kind, fill, received, q) ==
    LET s == sv[t]
        size == s.delayed_balance
        max == IF kind = "d_fok" THEN DELAYED_SWEEP_FOK_ATTEMPTS
               ELSE IF kind = "d_fak" THEN DELAYED_SWEEP_FAK_ATTEMPTS
               ELSE 1
        cleared == /\ fill > 0
                   /\ \/ q = NONE
                      \/ kind # "d_gtc" /\ q < DELAYED_SWEEP_MIN_BALANCE
        balance == IF fill = 0 THEN size ELSE IF cleared THEN 0 ELSE q
        success == s.delayed_success \/ fill > 0
        stop == cleared \/ s.attempt = max
        more == ~success /\ balance > DELAYED_SWEEP_MIN_BALANCE
        after == [s EXCEPT
                    !.delayed_sold = @ + fill,
                    !.delayed_received = IF fill > 0 THEN @ + received ELSE @,
                    !.delayed_success = success,
                    !.delayed_balance = balance,
                    !.rejections = IF fill > 0 THEN @ ELSE @ + 1,
                    !.partial_fills =
                        IF 0 < fill /\ fill < size THEN @ + 1 ELSE @,
                    !.rpc_failures =
                        IF fill > 0 /\ q = NONE THEN @ + 1 ELSE @,
                    !.n_orders = @ + 1,
                    !.attempt = IF stop THEN 1 ELSE @ + 1]
    IN  /\ pc[t] = "sp_" \o kind
        /\ fill <= Min(size, chain_balance[s.token])
        /\ kind = "d_fok" => fill \in {0, size}
        /\ Settle(s.token, fill)
        /\ IF ~stop
           THEN /\ sv' = [sv EXCEPT ![t] = after]
                /\ pc' = pc
           ELSE IF more /\ kind # "d_gtc"
           THEN /\ sv' = [sv EXCEPT ![t] = after]
                /\ pc' = [pc EXCEPT ![t] =
                            IF kind = "d_fok" THEN "sp_d_fak" ELSE "sp_d_gtc"]
           ELSE /\ sv' = [sv EXCEPT ![t] =
                            DelayedFinish(after, after.delayed_sold,
                                          after.delayed_received, balance,
                                          success)]
                /\ pc' = [pc EXCEPT ![t] = "sp_report"]
        /\ UNCHANGED <<loc, traderVars, cfgVars, safetyVars, marketVars>>

\* the success flag of the final report: remaining below 10% of the initial
\* balance, or nothing but dust remaining
SellSuccess(final_balance, initial_balance) ==
    IF final_balance > MIN_DUST_THRESHOLD
    THEN final_balance * 10 < initial_balance
    ELSE TRUE

\* FINAL REPORT
SellReport(t) ==
    LET s == sv[t]
    IN  /\ pc[t] = "sp_report"
        /\ SellReturn(t, [success |->
                              SellSuccess(s.final_balance, s.initial_balance),
                          filled_size |-> s.total_sold,
                          total_spent_usd |-> s.total_received_usd,
                          error |-> IF s.final_balance > MIN_DUST_THRESHOLD
                                    THEN "REMAINING" ELSE "NONE",
                          remaining_balance |-> s.final_balance])
        /\ UNCHANGED <<loc, traderVars, cfgVars, safetyVars, marketVars,
                       chain_balance>>

\* ------------------------------------------------------------------------
\* SpecSell : one sell_position call against the venue and the chain
\* ------------------------------------------------------------------------
\* buys of the same token that may still land while the sell is running
MaxLateFills == 1

\* on-chain balances at the start of the sell, in milli-contracts
SellBalances == {0, 50, 100, 150, 40100, 40200}

\* price per contract the venue pays during one call, in cents (the floor
\* price of every sell order is 1)
SellPrices == {1, 40}

\* the token sold in the sell specification
SellToken == <<<<"btc", 1>>, "UP">>

SellPcs == {"sp_chunk", "sp_requery", "sp_sweep", "sp_sweep_final",
            "sp_fb_fak", "sp_fb_gtc", "sp_delay", "sp_d_fok", "sp_d_fak",
            "sp_d_gtc", "sp_report"}

InitSell ==
    /\ pc = [t \in Threads |-> "idle"]
    /\ loc = [t \in Threads |-> NoLocals]
    /\ positions = <<>>
    /\ closed_markets = {}
    /\ current_capital = [c \in COINS |-> 0]
    /\ closed_trades = [c \in COINS |-> <<>>]
    /\ lock = [c \in COINS |-> 0]
    /\ token_ids_cache = Slugs
    /\ order_executor = TRUE
    /\ emergency_stop = FALSE
    /\ dry_run \in BOOLEAN
    /\ sweep_enable_fallback \in BOOLEAN
    /\ rpc = NoRpc
    /\ redeem = NoRedeem
    /\ registry_call = NoCall
    /\ orders_history = 0
    /\ invested_per_market = [s \in Slugs |-> 0]
    /\ blocked_markets = [c \in COINS |-> {}]
    /\ market_start_prices = [c \in COINS |-> (<<c, 1>> :> 50)]
    /\ last_entry = NoEntry
    /\ witnessed_market_switch = [c \in COINS |-> FALSE]
    /\ feed_slug = [c \in COINS |-> <<c, 1>>]
    /\ mv = NoMain
    /\ hist = NoHist
    /\ sv = [t \in Threads |-> NoSell]
    /\ \E b \in SellBalances :
          chain_balance = [k \in Tokens |-> IF k = SellToken THEN b ELSE 0]

\* sell_position is called
SellCall(t) ==
    /\ pc[t] = "idle"
    /\ \E q \in BalanceQuery(SellToken), bid \in SellPrices :
          SellBegin(t, SellToken, q, bid)
    /\ UNCHANGED <<loc, traderVars, cfgVars, safetyVars, marketVars,
                   chain_balance>>

\* partial fills a FAK or GTC order of the given size may get
SellFills(size) == {0, size \div 2, size}

VenueChunk(t) ==
    \E filled \in BOOLEAN :
       ChunkAttempt(t, filled, sv[t].chunks[sv[t].i] * sv[t].bid)

\* the balance query that follows an order which sold `sold`
QueryAfter(token, sold) ==
    IF dry_run THEN {0} ELSE {chain_balance[token] - sold, NONE}

VenueSweep(t) ==
    \E filled \in BOOLEAN :
       \E q \in QueryAfter(sv[t].token,
                           IF filled THEN sv[t].final_balance ELSE 0) :
          SweepAttempt(t, filled, sv[t].final_balance * sv[t].bid, q)

VenueFallbackFak(t) ==
    \E fill \in SellFills(sv[t].final_balance) :
       \E q \in QueryAfter(sv[t].token, fill) :
          FallbackFak(t, fill, fill * sv[t].bid, q)

VenueFallbackGtc(t) ==
    \E fill \in SellFills(sv[t].final_balance) :
       \E q \in QueryAfter(sv[t].token, fill) :
          FallbackGtc(t, fill, fill * sv[t].bid, q)

VenueDelayed(t, kind) ==
    \E fill \in SellFills(sv[t].delayed_balance) :
       \E q \in QueryAfter(sv[t].token, fill) :
          DelayedAttempt(t, kind, fill, fill * sv[t].bid, q)

\* a buy of the token that was in flight lands while the sell is running
LateFill(t) ==
    /\ pc[t] \in SellPcs
    /\ sv[t].late_fills < MaxLateFills
    /\ sv' = [sv EXCEPT ![t].late_fills = @ + 1]
    /\ chain_balance' = [chain_balance EXCEPT ![sv[t].token] = @ + Milli(1)]
    /\ UNCHANGED <<pc, loc, traderVars, cfgVars, safetyVars, marketVars>>

NextSell ==
    \/ SellCall(1)
    \/ VenueChunk(1)
    \/ \E q \in BalanceQuery(sv[1].token) : SellRequery(1, q)
    \/ VenueSweep(1)
    \/ \E q \in BalanceQuery(sv[1].token) : SweepFinal(1, q)
    \/ VenueFallbackFak(1)
    \/ VenueFallbackGtc(1)
    \/ \E q \in BalanceQuery(sv[1].token) : DelayedQuery(1, q)
    \/ VenueDelayed(1, "d_fok")
    \/ VenueDelayed(1, "d_fak")
    \/ VenueDelayed(1, "d_gtc")
    \/ SellReport(1)
    \/ LateFill(1)

SpecSell == InitSell /\ [][NextSell]_vars

\* ------------------------------------------------------------------------
\* Properties of the sell cascade (checked under SpecSell)
\* ------------------------------------------------------------------------
\* a sell_position call that ran the cascade with the default configuration,
\* every balance query succeeding and no token arriving meanwhile
QuietSell(t) ==
    /\ pc[t] = "sell_returned"
    /\ ~dry_run
    /\ ~sweep_enable_fallback
    /\ sv[t].initial_balance >= MIN_DUST_THRESHOLD
    /\ sv[t].rpc_failures = 0
    /\ sv[t].late_fills = 0

\* the orders one residue gets before the cascade gives up on it
RejectionBudget ==
    MAX_CHUNK_RETRIES + SWEEP_MAX_ATTEMPTS + DELAYED_SWEEP_FOK_ATTEMPTS
      + DELAYED_SWEEP_FAK_ATTEMPTS + 1

\* C9 as stated: starting from a balance at or above the dust threshold,
\* with successful balance queries, the cascade ends with the on-chain
\* balance below the dust threshold.
C9_SellLeavesLessThanDust ==
    \A t \in Threads :
        QuietSell(t) => chain_balance[sv[t].token] < MIN_DUST_THRESHOLD

\* What the cascade does guarantee (auxiliary to C9): if the venue fills in
\* full every order it does not reject and rejects fewer orders than the
\* cascade's attempt budget, the balance ends at or below the dust
\* threshold; a balance of exactly the threshold is never sold.
SellClearsWithinBudget ==
    \A t \in Threads :
        (/\ QuietSell(t)
         /\ sv[t].partial_fills = 0
         /\ sv[t].rejections < RejectionBudget)
        => chain_balance[sv[t].token] <= MIN_DUST_THRESHOLD

\* C15: in live mode a sell_position call that has returned reports the
\* amount sold and the proceeds received so far, and it never reports a
\* remaining balance below the dust threshold while the wallet still holds
\* at least the dust threshold of the token, whichever balance queries
\* failed.
C15_ResidualIsReported ==
    \A t \in Threads :
        (pc[t] = "sell_returned" /\ ~dry_run)
        => /\ sv[t].result.filled_size = sv[t].total_sold
           /\ sv[t].result.total_spent_usd = sv[t].total_received_usd
           /\ sv[t].result.remaining_balance < MIN_DUST_THRESHOLD
                 => chain_balance[sv[t].token] < MIN_DUST_THRESHOLD

\* C22: in live mode, a balance above the dust threshold after the chunk
\* stage starts the fill-or-kill sweep; residue above the threshold after
\* the fill-or-kill sweep is offered as fill-and-kill, and residue above the
\* threshold after that as a standing order; a later order type is
\* submitted only after the earlier one.
C22_SweepEscalates ==
    [][\A t \in Threads :
          LET wallet == chain_balance'[sv[t].token]
          IN  (~dry_run /\ pc'[t] # pc[t]) =>
                /\ (pc[t] = "sp_requery"
                       /\ sv'[t].final_balance > MIN_DUST_THRESHOLD)
                      => pc'[t] = "sp_sweep"
                /\ (pc[t] = "sp_sweep_final" /\ wallet > MIN_DUST_THRESHOLD)
                      => pc'[t] = "sp_fb_fak"
                /\ (pc[t] = "sp_fb_fak" /\ wallet > MIN_DUST_THRESHOLD)
                      => pc'[t] = "sp_fb_gtc"
                /\ pc'[t] = "sp_fb_fak" => pc[t] = "sp_sweep_final"
                /\ pc'[t] = "sp_fb_gtc" => pc[t] = "sp_fb_fak"]_vars

\* What does hold (auxiliary to C22): the order of the three order types,
\* and the escalation when the fallback is enabled in the configuration,
\* no fill-or-kill sweep order was filled and the balance read after the
\* stage is above the threshold.
SweepEscalatesWhenEnabled ==
    [][\A t \in Threads :
          LET read == sv'[t].final_balance
          IN  (~dry_run /\ pc'[t] # pc[t]) =>
                /\ (pc[t] = "sp_requery" /\ read > MIN_DUST_THRESHOLD)
                      => pc'[t] = "sp_sweep"
                /\ (pc[t] = "sp_sweep_final" /\ read > MIN_DUST_THRESHOLD
                       /\ sweep_enable_fallback /\ ~sv[t].sweep_success)
                      => pc'[t] = "sp_fb_fak"
                /\ (pc[t] = "sp_fb_fak" /\ read > MIN_DUST_THRESHOLD)
                      => pc'[t] = "sp_fb_gtc"
                /\ pc'[t] = "sp_fb_fak" => pc[t] = "sp_sweep_final"
                /\ pc'[t] = "sp_fb_gtc" => pc[t] = "sp_fb_fak"]_vars

\* the positions of the delayed stage's three order types
DelayedPcs == {"sp_d_fok", "sp_d_fak", "sp_d_gtc"}

\* C23: in live mode, after the delay a balance in the wallet above the
\* stage's minimum is offered as fill-or-kill, what is left above the
\* minimum as fill-and-kill, and what is left after that as a standing
\* order, each type only after the one before; what the stage sold is
\* added to the totals, and the balance the call reports is the balance
\* left in the wallet.
C23_DelayedSweepCascade ==
    [][\A t \in Threads :
          LET wallet == chain_balance'[sv[t].token]
              fill == chain_balance[sv[t].token] - wallet
          IN  (~dry_run /\ pc'[t] # pc[t]) =>
                /\ (pc[t] = "sp_delay" /\ wallet > DELAYED_SWEEP_MIN_BALANCE)
                      => pc'[t] = "sp_d_fok"
                /\ (pc[t] = "sp_d_fok" /\ wallet > DELAYED_SWEEP_MIN_BALANCE)
                      => pc'[t] = "sp_d_fak"
                /\ (pc[t] = "sp_d_fak" /\ wallet > DELAYED_SWEEP_MIN_BALANCE)
                      => pc'[t] = "sp_d_gtc"
                /\ pc'[t] = "sp_d_fok" => pc[t] = "sp_delay"
                /\ pc'[t] = "sp_d_fak" => pc[t] = "sp_d_fok"
                /\ pc'[t] = "sp_d_gtc" => pc[t] = "sp_d_fak"
                /\ (pc[t] \in DelayedPcs /\ pc'[t] = "sp_report")
                      => /\ sv'[t].total_sold
                              = sv[t].total_sold + sv[t].delayed_sold + fill
                         /\ sv'[t].final_balance = wallet]_vars

\* What does hold (auxiliary to C23): the order of the three types; the
\* fill-or-kill offer of a balance that was read above the minimum; the
\* escalation while nothing has been sold and the balance last read is
\* above the minimum; and the addition of what was sold to the totals.
DelayedSweepAsCoded ==
    [][\A t \in Threads :
          LET fill == chain_balance[sv[t].token] - chain_balance'[sv[t].token]
              read == sv'[t].delayed_balance
              unsold == ~sv'[t].delayed_success
          IN  (~dry_run /\ pc'[t] # pc[t]) =>
                /\ (pc[t] = "sp_delay" /\ read > DELAYED_SWEEP_MIN_BALANCE)
                      => pc'[t] = "sp_d_fok"
                /\ (pc[t] = "sp_d_fok" /\ unsold
                       /\ read > DELAYED_SWEEP_MIN_BALANCE)
                      => pc'[t] = "sp_d_fak"
                /\ (pc[t] = "sp_d_fak" /\ unsold
                       /\ read > DELAYED_SWEEP_MIN_BALANCE)
                      => pc'[t] = "sp_d_gtc"
                /\ pc'[t] = "sp_d_fok" => pc[t] = "sp_delay"
                /\ pc'[t] = "sp_d_fak" => pc[t] = "sp_d_fok"
                /\ pc'[t] = "sp_d_gtc" => pc[t] = "sp_d_fak"
                /\ (pc[t] \in DelayedPcs /\ pc'[t] = "sp_report")
                      => sv'[t].total_sold
                            = sv[t].total_sold + sv[t].delayed_sold + fill]_vars

RECURSIVE SumChunks(_, _)
SumChunks(chunks, idx) ==
    IF idx = {} THEN 0
    ELSE LET i == CHOOSE x \in idx : TRUE
         IN  chunks[i] + SumChunks(chunks, idx \ {i})

\* C10: a chunk that fails all its retries does not stop the chunk stage:
\* once the stage is over every chunk has been submitted, the re-queried
\* balance includes the failed chunks' amounts, and the sweep's first order
\* is for exactly that balance.
C10_FailedChunkDoesNotStopStage ==
    \A t \in Threads :
        LET s == sv[t]
        IN  /\ (pc[t] \in SellPcs \ {"sp_chunk"})
               => s.chunks_submitted = 1..Len(s.chunks)
            /\ (pc[t] \in SellPcs \ {"sp_chunk", "sp_requery"}
                  /\ s.late_fills = 0)
               => s.requeried >= SumChunks(s.chunks, s.failed_chunks)
            /\ s.first_sweep # NONE => s.first_sweep = s.requeried
            /\ (pc[t] \in SellPcs \ {"sp_chunk", "sp_requery", "sp_sweep"}
                  /\ s.requeried > MIN_DUST_THRESHOLD)
               => s.first_sweep = s.requeried

\* the first chunk failed all retries, the second was still submitted, and
\* the sweep was sent for the re-queried balance that holds the first chunk
C10_Witness ==
    \E t \in Threads :
        /\ 1 \in sv[t].failed_chunks
        /\ 2 \in sv[t].chunks_submitted
        /\ sv[t].first_sweep = sv[t].requeried
        /\ sv[t].first_sweep >= sv[t].chunks[1]

\* ------------------------------------------------------------------------
\* trader.py : close_market_early_exit
\* ------------------------------------------------------------------------
\* estimated payout: the side with more contracts sells at exit_price, the
\* other side at 1 - exit_price (prices in cents)
EstimatedPayout(up_contracts, down_contracts, exit_price) ==
    IF up_contracts > down_contracts
    THEN up_contracts * exit_price + down_contracts * (100 - exit_price)
    ELSE down_contracts * exit_price + up_contracts * (100 - exit_price)

\* the function returns and releases the lock
ExitReturn(t, x, value) ==
    /\ loc' = [loc EXCEPT ![t].exit = [x EXCEPT !.active = FALSE,
                                                !.ret = value]]
    /\ lock' = [lock EXCEPT ![CoinOf(x.slug)] = 0]
    /\ pc' = [pc EXCEPT ![t] = "exit_returned"]

\* a variant of the persistence step in which _log_trade never raises
LogRaisesNever(log_ok) == FALSE

\* _log_trade re-raises every error of the write (trader.py:1180-1206), so
\* the try block of the close is left for its except branch
LogRaises(log_ok) == ~log_ok

\* lines 554-675: under the lock, the two protections, the estimate, the
\* capital update, the trade record and its persistence; log_ok is whether
\* _log_trade wrote the record
ExitBegin(t, slug, exit_price, log_ok) ==
    LET coin == CoinOf(slug)
        pos == positions[slug]
        up == pos.UP.total_shares
        down == pos.DOWN.total_shares
        payout == EstimatedPayout(up, down, exit_price)
        total_cost == pos.UP.total_invested + pos.DOWN.total_invested
        pnl == payout - total_cost
        x == [NoExit EXCEPT !.active = TRUE, !.slug = slug,
                !.exit_price = exit_price,
                !.capital_before = current_capital[coin]]
        full == [x EXCEPT !.up_contracts = up, !.down_contracts = down,
                   !.payout = payout, !.total_cost = total_cost,
                   !.pnl = pnl]
    IN  /\ lock[coin] \in {0, t}
        /\ IF slug \notin DOMAIN positions \/ slug \in closed_markets
           THEN /\ ExitReturn(t, x, "None")
                /\ UNCHANGED <<positions, closed_markets, current_capital,
                               closed_trades>>
           ELSE /\ current_capital' =
                      [current_capital EXCEPT ![coin] = @ + pnl]
                /\ IF LogRaises(log_ok)
                   THEN /\ ExitReturn(t, full, "None")
                        /\ UNCHANGED <<positions, closed_markets,
                                       closed_trades>>
                   ELSE /\ closed_trades' = [closed_trades EXCEPT ![coin] =
                              Append(@, [market_slug |-> slug, pnl |-> pnl,
                                         payout |-> payout,
                                         total_cost |-> total_cost])]
                        /\ closed_markets' = closed_markets \cup {slug}
                        /\ positions' = [s \in DOMAIN positions \ {slug} |->
                                            positions[s]]
                        /\ loc' = [loc EXCEPT ![t].exit = full]
                        /\ lock' = [lock EXCEPT ![coin] = t]
                        /\ pc' = [pc EXCEPT ![t] =
                              IF order_executor /\ slug \in token_ids_cache
                              THEN "cx_sell" ELSE "cx_reset"]
        /\ UNCHANGED <<last_entry, cfgVars, safetyVars, blocked_markets,
                       market_start_prices, witnessed_market_switch,
                       feed_slug, mv, sv, chain_balance>>

\* the side after `side` in `for side in ['UP', 'DOWN']`
NextSide(side) == IF side = "UP" THEN "DOWN" ELSE "DONE"

\* where the exit continues once `side` has been dealt with
AfterSide(side) == IF NextSide(side) = "DONE" THEN "cx_update" ELSE "cx_sell"

\* lines 686-707: the next side with tracked contracts is sold; q is the
\* answer of sell_position's first balance query and bid the venue's price
ExitSell(t, q, bid) ==
    LET x == loc[t].exit
        side_contracts == IF x.side = "UP" THEN x.up_contracts
                          ELSE x.down_contracts
    IN  /\ pc[t] = "cx_sell"
        /\ IF side_contracts <= 0
           THEN /\ loc' = [loc EXCEPT ![t].exit.side = NextSide(x.side)]
                /\ pc' = [pc EXCEPT ![t] = AfterSide(x.side)]
                /\ UNCHANGED sv
                /\ UNCHANGED hist
           ELSE /\ SellBegin(t, <<x.slug, x.side>>, q, bid)
                /\ hist' = [hist EXCEPT !.sells[<<x.slug, x.side>>] = @ + 1]
                /\ UNCHANGED loc
        /\ UNCHANGED <<traderVars, cfgVars, safetyVars, blocked_markets,
                       market_start_prices, witnessed_market_switch,
                       feed_slug, mv, chain_balance>>

\* a variant in which a failed sell takes the slug out of closed_markets
ExitSellResultReopens(t) ==
    LET x == loc[t].exit
        result == sv[t].result
    IN  /\ pc[t] = "sell_returned"
        /\ x.active
        /\ loc' = [loc EXCEPT ![t].exit = [x EXCEPT
              !.real_payout = IF result.success
                              THEN @ + result.total_spent_usd ELSE @,
              !.real_sells_executed = @ \/ result.success,
              !.proceeds = @ + sv[t].total_received_usd,
              !.side = NextSide(x.side)]]
        /\ pc' = [pc EXCEPT ![t] = AfterSide(x.side)]
        /\ closed_markets' = IF result.success THEN closed_markets
                             ELSE closed_markets \ {x.slug}
        /\ UNCHANGED <<positions, last_entry, current_capital, closed_trades,
                       lock, cfgVars, safetyVars, marketVars, sv,
                       chain_balance>>

\* lines 709-714: only a successful sell adds its proceeds to real_payout
ExitSellResult(t) ==
    LET x == loc[t].exit
        result == sv[t].result
    IN  /\ pc[t] = "sell_returned"
        /\ x.active
        /\ loc' = [loc EXCEPT ![t].exit = [x EXCEPT
              !.real_payout = IF result.success
                              THEN @ + result.total_spent_usd ELSE @,
              !.real_sells_executed = @ \/ result.success,
              !.proceeds = @ + sv[t].total_received_usd,
              !.side = NextSide(x.side)]]
        /\ pc' = [pc EXCEPT ![t] = AfterSide(x.side)]
        /\ UNCHANGED <<traderVars, cfgVars, safetyVars, marketVars, sv,
                       chain_balance>>

\* line 781: the record and the capital are corrected only when some sell
\* succeeded and the successful sells paid something
CorrectionDue(real_sells_executed, real_payout) ==
    real_sells_executed /\ real_payout > 0

\* lines 786-796: the record takes the real payout; `trade` is the very
\* dict that was appended to closed_trades, so the stored record changes
\* with it wherever it stands (it is the first record of its slug: no
\* close gets past closed_markets after another)
UpdatedTrades(trades, slug, real_payout, real_pnl) ==
    [i \in DOMAIN trades |->
        IF /\ trades[i].market_slug = slug
           /\ \A j \in 1..(i - 1) : trades[j].market_slug # slug
        THEN [trades[i] EXCEPT !.payout = real_payout, !.pnl = real_pnl]
        ELSE trades[i]]

\* lines 781-824: the correction with the real payout, then the return; the
\* reset of the investment tracking at lines 818-822 names `order_executor`,
\* which is not defined in trader.py, so the NameError is caught and
\* nothing is reset.  log_ok is whether _log_trade wrote the updated record
\* (line 803): its error is not caught here, it leaves the call before the
\* capital is corrected and MultiTrader.close_market_early_exit turns it
\* into a None result
ExitFinish(t, log_ok) ==
    LET x == loc[t].exit
        coin == CoinOf(x.slug)
        real_pnl == x.real_payout - x.total_cost
    IN  /\ pc[t] \in {"cx_update", "cx_reset"}
        /\ IF pc[t] = "cx_update"
              /\ CorrectionDue(x.real_sells_executed, x.real_payout)
           THEN /\ closed_trades' = [closed_trades EXCEPT ![coin] =
                      UpdatedTrades(@, x.slug, x.real_payout, real_pnl)]
                /\ IF LogRaises(log_ok)
                   THEN /\ UNCHANGED current_capital
                        /\ ExitReturn(t, x, "None")
                   ELSE /\ current_capital' =
                              [current_capital EXCEPT ![coin] =
                                  @ - x.pnl + real_pnl]
                        /\ ExitReturn(t, x, "trade")
           ELSE /\ UNCHANGED <<closed_trades, current_capital>>
                /\ ExitReturn(t, x, "trade")
        /\ UNCHANGED <<positions, last_entry, closed_markets, cfgVars,
                       safetyVars, blocked_markets, market_start_prices,
                       witnessed_market_switch, feed_slug, mv, sv,
                       chain_balance>>

\* ------------------------------------------------------------------------
\* SpecExit : one early exit of a held position, with its real sells
\* ------------------------------------------------------------------------
\* the market that is exited
ExitSlug == <<"btc", 1>>

\* contracts held per side when the exit starts, in contracts
HeldContracts == {0, 1, 2}

\* favourite prices the exit is called with, in cents
ExitPrices == {30, 60}

\* a position with the given contracts, all bought at 50 cents
HeldPosition(up, down) ==
    [UP   |-> [total_shares |-> Milli(up),
               total_invested |-> Milli(up) * 50,
               entries |-> IF up > 0 THEN 1 ELSE 0],
     DOWN |-> [total_shares |-> Milli(down),
               total_invested |-> Milli(down) * 50,
               entries |-> IF down > 0 THEN 1 ELSE 0]]

InitExit ==
    /\ pc = [t \in Threads |-> "idle"]
    /\ loc = [t \in Threads |-> NoLocals]
    /\ closed_markets = {}
    /\ current_capital = [c \in COINS |-> 0]
    /\ closed_trades = [c \in COINS |-> <<>>]
    /\ lock = [c \in COINS |-> 0]
    /\ token_ids_cache = Slugs
    /\ order_executor \in BOOLEAN
    /\ emergency_stop = FALSE
    /\ dry_run \in BOOLEAN
    /\ sweep_enable_fallback = FALSE
    /\ rpc = NoRpc
    /\ redeem = NoRedeem
    /\ registry_call = NoCall
    /\ orders_history = 0
    /\ invested_per_market = [s \in Slugs |-> 0]
    /\ blocked_markets =
          [c \in COINS |-> IF c = CoinOf(ExitSlug) THEN {ExitSlug} ELSE {}]
    /\ market_start_prices =
          [c \in COINS |-> (<<c, 1>> :>
               IF c = CoinOf(ExitSlug) THEN ST_CLOSING ELSE 50)]
    /\ last_entry = NoEntry
    /\ witnessed_market_switch = [c \in COINS |-> FALSE]
    /\ feed_slug = [c \in COINS |-> <<c, 1>>]
    /\ mv = NoMain
    /\ hist = NoHist
    /\ sv = [t \in Threads |-> NoSell]
    /\ \E up \in HeldContracts, down \in HeldContracts :
          /\ up + down > 0
          /\ positions = (ExitSlug :> HeldPosition(up, down))
          /\ chain_balance = [k \in Tokens |->
                IF k[1] # ExitSlug THEN 0
                ELSE IF k[2] = "UP" THEN Milli(up) ELSE Milli(down)]

\* the exit trigger calls close_market_early_exit
ExitCall(t) ==
    /\ pc[t] = "idle"
    /\ \E exit_price \in ExitPrices, log_ok \in BOOLEAN :
          ExitBegin(t, ExitSlug, exit_price, log_ok)
    /\ UNCHANGED hist

VenueExitSell(t) ==
    /\ pc[t] = "cx_sell"
    /\ \E q \in BalanceQuery(<<loc[t].exit.slug, loc[t].exit.side>>),
          bid \in SellPrices :
             ExitSell(t, q, bid)

NextExit ==
    \/ ExitCall(1)
    \/ VenueExitSell(1)
    \/ VenueChunk(1)
    \/ \E q \in BalanceQuery(sv[1].token) : SellRequery(1, q)
    \/ VenueSweep(1)
    \/ \E q \in BalanceQuery(sv[1].token) : SweepFinal(1, q)
    \/ \E q \in BalanceQuery(sv[1].token) : DelayedQuery(1, q)
    \/ VenueDelayed(1, "d_fok")
    \/ VenueDelayed(1, "d_fak")
    \/ VenueDelayed(1, "d_gtc")
    \/ SellReport(1)
    \/ ExitSellResult(1)
    \/ ExitFinish(1, TRUE) /\ UNCHANGED hist

SpecExit == InitExit /\ [][NextExit]_vars

\* C8: after an early exit whose real sells returned total proceeds R, the
\* stored trade record has pnl = R - total invested and the capital has
\* changed by exactly R - total invested since before the exit.
C8_RecordAndCapitalUseRealProceeds ==
    \A t \in Threads :
        LET x == loc[t].exit
            coin == CoinOf(x.slug)
            trades == closed_trades[coin]
        IN  (/\ pc[t] = "exit_returned"
             /\ x.ret = "trade"
             /\ order_executor
             /\ ~dry_run)
            => /\ trades[Len(trades)].pnl = x.proceeds - x.total_cost
               /\ current_capital[coin] - x.capital_before
                    = x.proceeds - x.total_cost

\* What the correction does achieve (auxiliary to C8): when every sell of
\* the exit reported success and the sells paid something, the record and
\* the capital carry the real proceeds instead of the estimate.
ExitCorrectedWhenSellsSucceed ==
    \A t \in Threads :
        LET x == loc[t].exit
            coin == CoinOf(x.slug)
            trades == closed_trades[coin]
        IN  (/\ pc[t] = "exit_returned"
             /\ x.ret = "trade"
             /\ x.real_payout = x.proceeds
             /\ x.proceeds > 0)
            => /\ trades[Len(trades)].pnl = x.proceeds - x.total_cost
               /\ current_capital[coin] - x.capital_before
                    = x.proceeds - x.total_cost

\* ------------------------------------------------------------------------
\* main.py : on_price_update (one thread per price update)
\* ------------------------------------------------------------------------
\* the callback returns
CbReturn(t) == pc' = [pc EXCEPT ![t] = "idle"]

\* a variant of the status test that lets skipped and untracked markets pass
InactiveWhenClosing(status) == status = ST_CLOSING

\* the statuses for which a tick does nothing (line 1443)
Inactive(status) == status \in {ST_SKIP, ST_CLOSING, ST_UNTRACKED}

\* lines 1416-1444: the callback takes the market of its update and, under
\* market_lock, returns unless the market is tracked and active
CbStart(t, coin) ==
    LET slug == feed_slug[coin]
    IN  /\ pc[t] = "idle"
        /\ loc' = [loc EXCEPT ![t] = [NoLocals EXCEPT !.slug = slug]]
        /\ pc' = [pc EXCEPT ![t] =
              IF Inactive(StatusOf(coin, slug, ST_UNTRACKED))
              THEN "idle" ELSE "cb_stats"]
        /\ UNCHANGED <<traderVars, cfgVars, safetyVars, marketVars, sv,
                       chain_balance>>

\* the price of the side the position favours (lines 1485-1490), 0 if none
OurPrice(slug, up_ask, down_ask) ==
    IF slug \notin DOMAIN positions THEN 0
    ELSE LET up == positions[slug].UP.total_shares
             down == positions[slug].DOWN.total_shares
         IN  IF up > down /\ up > 0 THEN up_ask
             ELSE IF down > 0 THEN down_ask ELSE 0

\* lines 1458-1529 and 1619-1624: with a position held, the stop-loss or
\* flip-stop condition is evaluated (triggered); otherwise, or when no exit
\* triggers, the strategy may give an entry signal
CbStats(t, triggered, signal) ==
    LET slug == loc[t].slug
        our_price == OurPrice(slug, 50, 50)
    IN  /\ pc[t] = "cb_stats"
        /\ triggered => our_price # 0
        /\ signal => ~triggered
        /\ pc' = [pc EXCEPT ![t] = IF triggered THEN "cb_check"
                                   ELSE IF signal THEN "cb_entry"
                                   ELSE "idle"]
        /\ loc' = [loc EXCEPT ![t].price = our_price]
        /\ UNCHANGED <<traderVars, cfgVars, safetyVars, marketVars, sv,
                       chain_balance>>

\* lines 1531-1534: the trigger stops if the market is closing already
AlreadyClosing(status) == status = ST_CLOSING

\* lines 1531-1534 (1627-1630): the test of the status under market_lock
CbCheck(t) ==
    LET slug == loc[t].slug
    IN  /\ pc[t] = "cb_check"
        /\ pc' = [pc EXCEPT ![t] =
              IF AlreadyClosing(StatusOf(CoinOf(slug), slug, ST_UNTRACKED))
              THEN "idle" ELSE "cb_mark"]
        /\ UNCHANGED <<loc, traderVars, cfgVars, safetyVars, marketVars, sv,
                       chain_balance>>

\* lines 1536-1548 (1633-1644): the trigger is logged and the status is set
\* to closing under market_lock
CbMark(t) ==
    LET slug == loc[t].slug
        coin == CoinOf(slug)
    IN  /\ pc[t] = "cb_mark"
        /\ market_start_prices' = [market_start_prices EXCEPT ![coin] =
              (slug :> ST_CLOSING) @@ @]
        /\ hist' = [hist EXCEPT !.triggers[slug] = @ + 1,
                                !.ever_closing = @ \cup {slug}]
        /\ pc' = [pc EXCEPT ![t] = "cb_block"]
        /\ UNCHANGED <<loc, traderVars, cfgVars, safetyVars, blocked_markets,
                       witnessed_market_switch, feed_slug, mv, sv,
                       chain_balance>>

\* line 1551 (1647): order_executor.block_market(market_slug, coin)
CbBlock(t) ==
    /\ pc[t] = "cb_block"
    /\ block_market(loc[t].slug, CoinOf(loc[t].slug))
    /\ pc' = [pc EXCEPT ![t] = "cb_close"]
    /\ UNCHANGED <<loc, traderVars, cfgVars, safetyVars, market_start_prices,
                   loopVars, sv, chain_balance>>

\* lines 1553-1561 (1650-1657): close_market_early_exit is called
CbClose(t, log_ok) ==
    /\ pc[t] = "cb_close"
    /\ ExitBegin(t, loc[t].slug, loc[t].price, log_ok)
    /\ UNCHANGED hist

\* lines 1563-1613: the callback ends after the close
CbClosed(t) ==
    /\ pc[t] = "exit_returned"
    /\ CbReturn(t)
    /\ UNCHANGED <<loc, traderVars, cfgVars, safetyVars, marketVars, sv,
                   chain_balance>>

\* enter_position calls the strategy makes in the lifecycle specification
LifeEntries == 2

\* lines 1740-1767: the entry is dropped if the status is skip or closing
\* (an untracked market passes), else enter_position is called
CbEntry(t, side) ==
    LET slug == loc[t].slug
        status == StatusOf(CoinOf(slug), slug, ST_UNTRACKED)
    IN  /\ pc[t] = "cb_entry"
        /\ IF status \in {ST_SKIP, ST_CLOSING}
           THEN /\ CbReturn(t)
                /\ UNCHANGED <<loc, positions, last_entry, hist>>
           ELSE /\ hist.entries < LifeEntries
                /\ hist' = [hist EXCEPT !.entries = @ + 1]
                /\ EnterBegin(t, slug, side, 50, MaxContracts, 50, 50)
        /\ UNCHANGED <<exitVars, cfgVars, safetyVars, blocked_markets,
                       market_start_prices, witnessed_market_switch,
                       feed_slug, mv, sv, chain_balance>>

\* ------------------------------------------------------------------------
\* main.py : the main loop's market tracking (lines 1817-2007), not under
\* market_lock
\* ------------------------------------------------------------------------
\* the reference price the data feed reports, in cents
FeedPrices == {50}

\* the status map of a coin with one more assignment
WithStatus(coin, slug, status) ==
    [market_start_prices EXCEPT ![coin] = (slug :> status) @@ @]

MainGoto(label) == mv' = [mv EXCEPT !.pc = label]

\* lines 1822-1828: the iteration reads the feed's market and price
MainTop(coin, price) ==
    /\ mv.pc = "m_top"
    /\ mv' = [pc |-> "m_switch", coin |-> coin,
              market_slug |-> feed_slug[coin], price |-> price]
    /\ UNCHANGED <<pc, loc, sv, traderVars, cfgVars, safetyVars,
                   blocked_markets, market_start_prices,
                   witnessed_market_switch, feed_slug, hist, chain_balance>>

\* lines 1831-1900: every tracked market other than the current one is a
\* market switch: it is recorded and the old market leaves the tracking
MainSwitch ==
    LET coin == mv.coin
        old == DOMAIN market_start_prices[coin] \ {mv.market_slug}
    IN  /\ mv.pc = "m_switch"
        /\ MainGoto("m_track")
        /\ IF old = {}
           THEN UNCHANGED <<market_start_prices, witnessed_market_switch>>
           ELSE /\ witnessed_market_switch' =
                      [witnessed_market_switch EXCEPT ![coin] = TRUE]
                /\ market_start_prices' =
                      [market_start_prices EXCEPT ![coin] =
                          [s \in DOMAIN @ \ old |-> @[s]]]
        /\ UNCHANGED <<pc, loc, sv, traderVars, cfgVars, safetyVars,
                       blocked_markets, feed_slug, hist, chain_balance>>

\* a variant of the first observation that never marks a market skip
MainTrackNeverSkips ==
    LET coin == mv.coin
        slug == mv.market_slug
    IN  /\ mv.pc = "m_track"
        /\ IF slug \notin DOMAIN market_start_prices[coin]
           THEN /\ market_start_prices' = WithStatus(coin, slug, mv.price)
                /\ MainGoto("m_active")
           ELSE /\ MainGoto(IF market_start_prices[coin][slug] = ST_PENDING
                               /\ mv.price > 0
                            THEN "m_write_price" ELSE "m_active")
                /\ UNCHANGED market_start_prices
        /\ UNCHANGED <<pc, loc, sv, traderVars, cfgVars, safetyVars,
                       blocked_markets, witnessed_market_switch, feed_slug,
                       hist, chain_balance>>

\* lines 1903-1923: first observation of a market, or the test of a pending
\* market's price
MainTrack ==
    LET coin == mv.coin
        slug == mv.market_slug
    IN  /\ mv.pc = "m_track"
        /\ IF slug \notin DOMAIN market_start_prices[coin]
           THEN /\ market_start_prices' = WithStatus(coin, slug,
                      IF ~witnessed_market_switch[coin] THEN ST_SKIP
                      ELSE mv.price)
                /\ MainGoto("m_active")
           ELSE /\ MainGoto(IF market_start_prices[coin][slug] = ST_PENDING
                               /\ mv.price > 0
                            THEN "m_write_price" ELSE "m_active")
                /\ UNCHANGED market_start_prices
        /\ UNCHANGED <<pc, loc, sv, traderVars, cfgVars, safetyVars,
                       blocked_markets, witnessed_market_switch, feed_slug,
                       hist, chain_balance>>

\* line 1922: the pending market gets its start price
MainWritePrice ==
    /\ mv.pc = "m_write_price"
    /\ market_start_prices' = WithStatus(mv.coin, mv.market_slug, mv.price)
    /\ MainGoto("m_active")
    /\ UNCHANGED <<pc, loc, sv, traderVars, cfgVars, safetyVars,
                   blocked_markets, witnessed_market_switch, feed_slug,
                   hist, chain_balance>>

\* lines 1999-2007: a skipped market is re-armed once it is in its entry
\* window (in_window: seconds_till_end <= 240)
MainActive(in_window) ==
    /\ mv.pc = "m_active"
    /\ MainGoto(IF StatusOf(mv.coin, mv.market_slug, ST_UNTRACKED) = ST_SKIP
                   /\ in_window
                THEN "m_rearm" ELSE "m_top")
    /\ UNCHANGED <<pc, loc, sv, traderVars, cfgVars, safetyVars,
                   blocked_markets, market_start_prices,
                   witnessed_market_switch, feed_slug, hist, chain_balance>>

\* line 2003: market_start_prices[coin][market_slug] = 0
MainRearm ==
    /\ mv.pc = "m_rearm"
    /\ market_start_prices' = WithStatus(mv.coin, mv.market_slug, ST_PENDING)
    /\ MainGoto("m_top")
    /\ UNCHANGED <<pc, loc, sv, traderVars, cfgVars, safetyVars,
                   blocked_markets, witnessed_market_switch, feed_slug,
                   hist, chain_balance>>

\* the data feed moves on to the coin's next market
FeedSwitch(coin) ==
    /\ feed_slug[coin][2] < MaxMarkets
    /\ feed_slug' = [feed_slug EXCEPT ![coin] = <<coin, @[2] + 1>>]
    /\ UNCHANGED <<pc, loc, sv, traderVars, cfgVars, safetyVars,
                   blocked_markets, market_start_prices,
                   witnessed_market_switch, mv, hist, chain_balance>>

\* ------------------------------------------------------------------------
\* Spec : the lifecycle of one coin's markets. Price-update callbacks run
\* concurrently with each other and with the main loop; the venue fills or
\* rejects a buy order and fills every sell order; balance queries succeed.
\* The timer check check_coin_sys2 (main.py:2028-2033) looks its strategy up
\* as late_entry_v3_<coin>, a name `strategies` never holds (main.py:32,
\* 388-395), so it returns at once and has no step here.
\* ------------------------------------------------------------------------
\* the coin whose markets are followed
LifeCoin == "btc"

\* the price the venue pays for a sold contract, in cents
LifeBid == 40

Init ==
    /\ pc = [t \in Threads |-> "idle"]
    /\ loc = [t \in Threads |-> NoLocals]
    /\ positions = <<>>
    /\ closed_markets = {}
    /\ current_capital = [c \in COINS |-> 0]
    /\ closed_trades = [c \in COINS |-> <<>>]
    /\ lock = [c \in COINS |-> 0]
    /\ token_ids_cache = Slugs
    /\ order_executor = TRUE
    /\ emergency_stop = FALSE
    /\ dry_run = FALSE
    /\ sweep_enable_fallback = FALSE
    /\ rpc = NoRpc
    /\ redeem = NoRedeem
    /\ registry_call = NoCall
    /\ orders_history = 0
    /\ invested_per_market = [s \in Slugs |-> 0]
    /\ blocked_markets = [c \in COINS |-> {}]
    /\ market_start_prices = [c \in COINS |-> <<>>]
    /\ witnessed_market_switch = [c \in COINS |-> FALSE]
    /\ feed_slug = [c \in COINS |-> <<c, 1>>]
    /\ mv = NoMain
    /\ hist = NoHist
    /\ last_entry = NoEntry
    /\ sv = [t \in Threads |-> NoSell]
    /\ chain_balance = [k \in Tokens |-> 0]

\* the venue rejects the FAK buy order or fills it in full at the limit
LifeVenueBuy(t) ==
    \E ok \in BOOLEAN :
       FakPost(t, ok, loc[t].order_size,
               loc[t].order_size * loc[t].normalized_price)

\* the balance after an order that sold `sold`
LifeBalance(t, sold) == chain_balance[sv[t].token] - sold

LifeExitSell(t) ==
    /\ pc[t] = "cx_sell"
    /\ ExitSell(t, chain_balance[<<loc[t].exit.slug, loc[t].exit.side>>],
                LifeBid)

\* one step of a running sell_position call
LifeSell(t) ==
    \/ ChunkAttempt(t, TRUE, sv[t].chunks[sv[t].i] * sv[t].bid)
    \/ SellRequery(t, LifeBalance(t, 0))
    \/ SweepAttempt(t, TRUE, sv[t].final_balance * sv[t].bid,
                    LifeBalance(t, sv[t].final_balance))
    \/ SweepFinal(t, LifeBalance(t, 0))
    \/ DelayedQuery(t, LifeBalance(t, 0))
    \/ DelayedAttempt(t, "d_fok", sv[t].delayed_balance,
                      sv[t].delayed_balance * sv[t].bid,
                      LifeBalance(t, sv[t].delayed_balance))
    \/ SellReport(t)

\* one step of a price-update callback
Callback(t) ==
    \/ CbStart(t, LifeCoin)
    \/ \E triggered \in BOOLEAN, signal \in BOOLEAN :
          CbStats(t, triggered, signal)
    \/ CbCheck(t)
    \/ CbMark(t)
    \/ CbBlock(t)
    \/ CbClose(t, TRUE)
    \/ LifeExitSell(t)
    \/ LifeSell(t)
    \/ ExitSellResult(t)
    \/ ExitFinish(t, TRUE) /\ UNCHANGED hist
    \/ CbClosed(t)
    \/ CbEntry(t, "UP")
    \/ PboSafety(t)
    \/ PboBlocked(t)
    \/ PboClosing(t)
    \/ FakBlocked(t)
    \/ FakClosing(t)
    \/ LifeVenueBuy(t)
    \/ PboReturn(t)
    \/ EnterResult(t)

\* one step of the main loop
MainLoop ==
    \/ \E price \in FeedPrices : MainTop(LifeCoin, price)
    \/ MainSwitch
    \/ MainTrack
    \/ MainWritePrice
    \/ \E in_window \in BOOLEAN : MainActive(in_window)
    \/ MainRearm

Next ==
    \/ \E t \in Threads : Callback(t)
    \/ MainLoop
    \/ FeedSwitch(LifeCoin)

Spec == Init /\ [][Next]_vars

\* ------------------------------------------------------------------------
\* Properties of the lifecycle (checked under Spec)
\* ------------------------------------------------------------------------
\* thread t posts a buy order in this step
PostsBuyOrder(t) == pc[t] = "fak_post" /\ pc'[t] # "fak_post"

\* thread t posts a sell order in this step
PostsSellOrder(t) == sv'[t].n_orders > sv[t].n_orders

Blocked(slug) == slug \in blocked_markets[CoinOf(slug)]

Closing(slug) == StatusOf(CoinOf(slug), slug, ST_UNTRACKED) = ST_CLOSING

C2_ClosingIsNeverOverwritten ==
    [][\A s \in Slugs :
          (Closing(s) /\ s \in DOMAIN market_start_prices'[CoinOf(s)])
             => market_start_prices'[CoinOf(s)][s] = ST_CLOSING]_vars

RecordsOf(slug) ==
    {i \in 1..Len(closed_trades[CoinOf(slug)]) :
        closed_trades[CoinOf(slug)][i].market_slug = slug}

\* C4: for every slug the exit fires exactly once however many callbacks
\* see the triggering condition: one thread sets closing and closes, one
\* trade record is written, the sell cascade starts at most once per side.
C4_ExitFiresOnce ==
    \A s \in Slugs :
        /\ hist.triggers[s] <= 1
        /\ Cardinality(RecordsOf(s)) <= 1
        /\ \A side \in Sides : hist.sells[<<s, side>>] <= 1

\* What the locks do achieve (auxiliary to C4): the close takes effect at
\* most once per slug, with at most one trade record and one sell cascade
\* per side, and only for a slug whose trigger has fired.
ExitClosesOnce ==
    \A s \in Slugs :
        /\ Cardinality(RecordsOf(s)) <= 1
        /\ \A side \in Sides : hist.sells[<<s, side>>] <= 1
        /\ Cardinality(RecordsOf(s)) <= hist.triggers[s]

\* ------------------------------------------------------------------------
\* main.py : exit evaluation of one tick, on the price-update path
\* (on_price_update) and on the timer path (check_coin_sys2).  Times are
\* whole seconds, prices are cents.
\* ------------------------------------------------------------------------
\* latest clock value
MaxTime == 4
\* the clock values at which a tick is evaluated
TickClock == {MaxTime}
\* the times at which the UP and the DOWN ask were last updated: both
\* fresh, UP old, DOWN never updated
TickStamps == {<<MaxTime, MaxTime>>, <<MaxTime - 3, MaxTime>>,
               <<MaxTime - 1, 0>>}
\* the UP and DOWN ask prices the feed reports, in cents
TickAsks == {<<40, 60>>, <<45, 60>>, <<40, 40>>}

\* validate_prices' threshold_sec
THRESHOLD_SEC == 2
\* the age validate_prices gives a timestamp that was never set
NEVER_AGE == 999
\* the band of validate_prices for up_ask + down_ask, in cents
SUM_MIN == 95
SUM_MAX == 115
\* exit.flip_stop.price_threshold, in cents
FLIP_STOP_PRICE == 48

STRATEGY_BASES == {"late_v3"}

\* the keys of main.strategies: f"{base_name}_{coin}"
strategies == STRATEGY_BASES \X COINS

\* exit.stop_loss.per_coin of the configuration: none for btc, a fixed
\* amount for eth (scaled to the model's position sizes: -0.20 USD)
sl_config ==
    [btc |-> [enabled |-> FALSE, type |-> "none", value |-> 0],
     eth |-> [enabled |-> TRUE, type |-> "fixed", value |-> 0 - 20000]]

Abs(x) == IF x < 0 THEN 0 - x ELSE x

\* a variant of validate_prices that accepts every pair of prices
ValidateNothing(up_ask, down_ask, up_timestamp, down_timestamp, now) == "OK"

\* main.validate_prices: the reason, "OK" when the prices are valid
validate_prices(up_ask, down_ask, up_timestamp, down_timestamp, now) ==
    LET up_age == IF up_timestamp > 0 THEN now - up_timestamp
                  ELSE NEVER_AGE
        down_age == IF down_timestamp > 0 THEN now - down_timestamp
                    ELSE NEVER_AGE
        price_sum == up_ask + down_ask
    IN  IF up_age > THRESHOLD_SEC THEN "UP_STALE"
        ELSE IF down_age > THRESHOLD_SEC THEN "DOWN_STALE"
        ELSE IF Abs(up_timestamp - down_timestamp) > THRESHOLD_SEC
             THEN "DESYNC"
        ELSE IF price_sum < SUM_MIN \/ price_sum > SUM_MAX
             THEN "INVALID_SUM"
        ELSE "OK"

\* total_invested of Trader.get_market_stats, 0 without a position
TotalInvested(slug) ==
    IF slug \notin DOMAIN positions THEN 0
    ELSE positions[slug].UP.total_invested
         + positions[slug].DOWN.total_invested

\* unrealized_pnl of Trader.get_market_stats (and of
\* get_market_detailed_stats): value at the current asks minus invested
UnrealizedPnl(slug, up_ask, down_ask) ==
    IF slug \notin DOMAIN positions THEN 0
    ELSE positions[slug].UP.total_shares * up_ask
         + positions[slug].DOWN.total_shares * down_ask
         - TotalInvested(slug)

\* the hybrid stop-loss test (main.py:1507-1523, trader.py:1099-1114);
\* a percent threshold is total_invested * value / 100
StopLossTriggered(coin, unrealized_pnl, total_invested) ==
    LET cfg == sl_config[coin]
    IN  /\ cfg.enabled
        /\ \/ cfg.type = "fixed" /\ unrealized_pnl <= cfg.value
           \/ cfg.type = "percent"
              /\ unrealized_pnl * 100 <= total_invested * cfg.value

\* on_price_update, lines 1417-1444: the callback returns on a missing or
\* out-of-range price and on an untracked, skipped or closing market
TickStart(t, coin, up_ask, down_ask, up_ts, down_ts) ==
    LET slug == feed_slug[coin]
        bad_price == up_ask <= 0 \/ down_ask <= 0
                     \/ up_ask > 100 \/ down_ask > 100
    IN  /\ pc[t] = "idle"
        /\ loc' = [loc EXCEPT ![t] =
              [NoLocals EXCEPT !.slug = slug, !.path = "callback",
                               !.up_ask = up_ask, !.down_ask = down_ask,
                               !.up_ask_ts = up_ts, !.down_ask_ts = down_ts]]
        /\ pc' = [pc EXCEPT ![t] =
              IF bad_price \/ Inactive(StatusOf(coin, slug, ST_UNTRACKED))
              THEN "idle" ELSE "tk_eval"]
        /\ UNCHANGED <<traderVars, cfgVars, safetyVars, marketVars, sv,
                       chain_balance>>

\* a variant of the exit trigger that knows the stop-loss only
PriceUpdateFiresOnStopLoss(slug, up_ask, down_ask, up_ts, down_ts, now) ==
    /\ TotalInvested(slug) > 0
    /\ validate_prices(up_ask, down_ask, up_ts, down_ts, now) = "OK"
    /\ OurPrice(slug, up_ask, down_ask) # 0
    /\ StopLossTriggered(CoinOf(slug), UnrealizedPnl(slug, up_ask, down_ask),
                         TotalInvested(slug))
    /\ slug \in DOMAIN positions

\* on_price_update's exit trigger (lines 1479-1529): with something
\* invested and valid prices, the stop-loss or the flip-stop of the side
\* held fires for a position the ledger still holds
PriceUpdateFires(slug, up_ask, down_ask, up_ts, down_ts, now) ==
    LET coin == CoinOf(slug)
        total_invested == TotalInvested(slug)
        our_price == OurPrice(slug, up_ask, down_ask)
        stop_loss_triggered ==
            StopLossTriggered(coin, UnrealizedPnl(slug, up_ask, down_ask),
                              total_invested)
        flip_stop_triggered ==
            <<"late_v3", coin>> \in strategies /\ our_price <= FLIP_STOP_PRICE
    IN  /\ total_invested > 0
        /\ validate_prices(up_ask, down_ask, up_ts, down_ts, now) = "OK"
        /\ our_price # 0
        /\ stop_loss_triggered \/ flip_stop_triggered
        /\ slug \in DOMAIN positions

\* on_price_update, lines 1458-1529 and 1619-1624, for a tick on which
\* the strategy gives no entry signal: with a position held the prices are
\* validated at clock value `now`; invalid prices end the evaluation, valid
\* ones are tested against the stop-loss and the flip-stop
TickEval(t, now) ==
    LET l == loc[t]
        slug == l.slug
        our_price == OurPrice(slug, l.up_ask, l.down_ask)
        fires == PriceUpdateFires(slug, l.up_ask, l.down_ask, l.up_ask_ts,
                                  l.down_ask_ts, now)
    IN  /\ pc[t] = "tk_eval"
        /\ now >= l.up_ask_ts /\ now >= l.down_ask_ts
        /\ loc' = [loc EXCEPT ![t].now = now, ![t].price = our_price]
        /\ pc' = [pc EXCEPT ![t] = IF fires THEN "cb_check" ELSE "idle"]
        /\ UNCHANGED <<traderVars, cfgVars, safetyVars, marketVars, sv,
                       chain_balance>>

\* Trader.get_market_detailed_stats: the two trigger flags and the price of
\* the side check_coin_sys2 takes as ours
DetailedStats(slug, up_ask, down_ask) ==
    LET coin == CoinOf(slug)
        up_shares == positions[slug].UP.total_shares
        down_shares == positions[slug].DOWN.total_shares
        our_price == IF up_shares > down_shares THEN up_ask ELSE down_ask
    IN  [stop_loss_triggered |->
             /\ TotalInvested(slug) > 0
             /\ StopLossTriggered(coin,
                    UnrealizedPnl(slug, up_ask, down_ask),
                    TotalInvested(slug)),
         flip_stop_triggered |->
             /\ up_shares > 0 \/ down_shares > 0
             /\ our_price <= FLIP_STOP_PRICE,
         our_price |-> our_price]

\* check_coin_sys2 (main.py:2028-2149) up to its trigger: it looks the
\* strategy up as f"late_entry_v3_{coin}", reads the feed, tests the
\* status, validates the prices and takes the flags of
\* get_market_detailed_stats; a trigger continues as on the callback path
\* (status test, closing, block, close)
Sys2Check(t, coin, up_ask, down_ask, up_ts, down_ts, now) ==
    LET strategy_name == <<"late_entry_v3", coin>>
        slug == feed_slug[coin]
        reason == validate_prices(up_ask, down_ask, up_ts, down_ts, now)
        fires ==
            /\ strategy_name \in strategies
            /\ ~Inactive(StatusOf(coin, slug, ST_UNTRACKED))
            /\ reason = "OK"
            /\ slug \in DOMAIN positions
            /\ LET d == DetailedStats(slug, up_ask, down_ask)
               IN  d.stop_loss_triggered \/ d.flip_stop_triggered
    IN  /\ pc[t] = "idle"
        /\ now >= up_ts /\ now >= down_ts
        /\ loc' = [loc EXCEPT ![t] =
              [NoLocals EXCEPT !.slug = slug, !.path = "timer",
                 !.up_ask = up_ask, !.down_ask = down_ask,
                 !.up_ask_ts = up_ts, !.down_ask_ts = down_ts,
                 !.now = now,
                 !.price = IF fires
                           THEN DetailedStats(slug, up_ask, down_ask).our_price
                           ELSE 0]]
        /\ pc' = [pc EXCEPT ![t] = IF fires THEN "cb_check" ELSE "idle"]
        /\ UNCHANGED <<traderVars, cfgVars, safetyVars, marketVars, sv,
                       chain_balance>>

\* the positions held when the ticks arrive: (UP, DOWN) contracts
TickHeld == {<<2, 0>>, <<1, 2>>}

\* both coins track their first market as active and hold a position in it
InitTick ==
    /\ pc = [t \in Threads |-> "idle"]
    /\ loc = [t \in Threads |-> NoLocals]
    /\ closed_markets = {}
    /\ current_capital = [c \in COINS |-> 0]
    /\ closed_trades = [c \in COINS |-> <<>>]
    /\ lock = [c \in COINS |-> 0]
    /\ token_ids_cache = Slugs
    /\ order_executor = TRUE
    /\ emergency_stop = FALSE
    /\ dry_run = FALSE
    /\ sweep_enable_fallback = FALSE
    /\ rpc = NoRpc
    /\ redeem = NoRedeem
    /\ registry_call = NoCall
    /\ orders_history = 0
    /\ invested_per_market = [s \in Slugs |-> 0]
    /\ blocked_markets = [c \in COINS |-> {}]
    /\ market_start_prices = [c \in COINS |-> (<<c, 1>> :> 50)]
    /\ last_entry = NoEntry
    /\ witnessed_market_switch = [c \in COINS |-> FALSE]
    /\ feed_slug = [c \in COINS |-> <<c, 1>>]
    /\ mv = NoMain
    /\ hist = NoHist
    /\ sv = [t \in Threads |-> NoSell]
    /\ \E h \in TickHeld :
          /\ positions = [s \in {<<c, 1>> : c \in COINS} |->
                             HeldPosition(h[1], h[2])]
          /\ chain_balance = [k \in Tokens |->
                IF k[1][2] # 1 THEN 0
                ELSE IF k[2] = "UP" THEN Milli(h[1]) ELSE Milli(h[2])]

\* a price update arrives for a coin
TickArrives(t) ==
    \E coin \in COINS, ask \in TickAsks, ts \in TickStamps :
          TickStart(t, coin, ask[1], ask[2], ts[1], ts[2])

\* the fast timer runs check_coin_sys2 for a coin
TimerRuns(t) ==
    \E coin \in COINS, ask \in TickAsks, ts \in TickStamps,
       now \in TickClock :
          Sys2Check(t, coin, ask[1], ask[2], ts[1], ts[2], now)

\* one step of a running sell_position call: the venue fills or rejects a
\* chunk or sweep order and fills every delayed-sweep order in full
TickSell(t) ==
    \/ VenueChunk(t)
    \/ SellRequery(t, LifeBalance(t, 0))
    \/ \E filled \in BOOLEAN :
          SweepAttempt(t, filled, sv[t].final_balance * sv[t].bid,
                       LifeBalance(t, IF filled THEN sv[t].final_balance
                                      ELSE 0))
    \/ SweepFinal(t, LifeBalance(t, 0))
    \/ DelayedQuery(t, LifeBalance(t, 0))
    \/ DelayedAttempt(t, "d_fok", sv[t].delayed_balance,
                      sv[t].delayed_balance * sv[t].bid,
                      LifeBalance(t, sv[t].delayed_balance))
    \/ SellReport(t)

\* redeem_position has redeemed a market on chain and unblocks it
\* (order_executor.py:2264-2274)
RedeemUnblocks(slug) ==
    /\ is_market_blocked(slug, CoinOf(slug))
    /\ unblock_market(slug, CoinOf(slug))
    /\ UNCHANGED <<pc, loc, sv, traderVars, cfgVars, safetyVars,
                   market_start_prices, loopVars, chain_balance>>

\* price updates are handled by the threads the feed starts, the timer's
\* checks by a thread of its own pool
NextTick ==
    \/ \E t \in Threads \ {NThreads} :
          \/ TickArrives(t)
          \/ \E now \in TickClock : TickEval(t, now)
          \/ CbCheck(t)
          \/ CbMark(t)
          \/ CbBlock(t)
          \/ \E log_ok \in BOOLEAN : CbClose(t, log_ok)
          \/ LifeExitSell(t)
          \/ TickSell(t)
          \/ ExitSellResult(t)
          \/ ExitFinish(t, TRUE) /\ UNCHANGED hist
          \/ CbClosed(t)
    \/ TimerRuns(NThreads)
    \/ \E slug \in Slugs : RedeemUnblocks(slug)

SpecTick == InitTick /\ [][NextTick]_vars

\* ------------------------------------------------------------------------
\* Properties of SpecTick
\* ------------------------------------------------------------------------
\* the prices of a tick fail validation: an ask older than the threshold,
\* the two timestamps further apart than the threshold, or the sum of the
\* asks outside the band
PricesInvalid(l) ==
    \/ l.now - l.up_ask_ts > THRESHOLD_SEC
    \/ l.now - l.down_ask_ts > THRESHOLD_SEC
    \/ Abs(l.up_ask_ts - l.down_ask_ts) > THRESHOLD_SEC
    \/ l.up_ask + l.down_ask < SUM_MIN
    \/ l.up_ask + l.down_ask > SUM_MAX

\* thread t evaluates the exit conditions of a tick in this step, on the
\* price-update path or on the timer path
EvaluatesTick(t) ==
    \/ pc[t] = "tk_eval" /\ pc'[t] # "tk_eval"
    \/ /\ pc[t] = "idle"
       /\ loc'[t].path = "timer"
       /\ loc'[t] # loc[t] \/ pc'[t] # pc[t]

\* C11: a tick whose prices fail validation ends its exit evaluation
\* without any effect: status map, blocked registry, positions, capital,
\* trade records and on-chain balances are unchanged and no exit trigger or
\* sell order is issued, whatever the unrealized PnL at those prices.
C11_InvalidTickChangesNothing ==
    [][\A t \in Threads :
          (EvaluatesTick(t) /\ PricesInvalid(loc'[t]))
             => /\ pc'[t] = "idle"
                /\ UNCHANGED <<market_start_prices, blocked_markets,
                               positions, exitVars, hist, chain_balance,
                               sv>>]_vars

\* a price update with invalid prices was evaluated for a held position
\* whose unrealized PnL at those prices is at or below the stop-loss
\* threshold, and the market is still active with the position open
C11_Witness ==
    \E t \in Threads :
       LET l == loc[t]
           coin == CoinOf(l.slug)
       IN  /\ pc[t] = "idle"
           /\ l.path = "callback"
           /\ l.now > 0
           /\ PricesInvalid(l)
           /\ l.slug \in DOMAIN positions
           /\ sl_config[coin].enabled
           /\ UnrealizedPnl(l.slug, l.up_ask, l.down_ask)
                 <= sl_config[coin].value
           /\ StatusOf(coin, l.slug, ST_UNTRACKED) = 50
           /\ ~Blocked(l.slug)

\* ------------------------------------------------------------------------
\* trader.py : the ledger under sequences of enter_position_contracts,
\* close_market and close_market_early_exit calls on one market
\* ------------------------------------------------------------------------
\* close_market and close_market_early_exit calls in a run
MaxCloses == 3

\* Trader.close_market (lines 428-535): the winning side pays 1 USD a
\* share; the capital is updated before the record is persisted; the reset
\* at lines 529-533 names `order_executor`, which trader.py does not
\* define, so nothing is reset
CloseMarket(t, slug, winner, log_ok) ==
    LET coin == CoinOf(slug)
        pos == positions[slug]
        payout == pos[winner].total_shares * 100
        total_cost == pos.UP.total_invested + pos.DOWN.total_invested
        pnl == payout - total_cost
        call == [NoLocals EXCEPT !.slug = slug, !.path = "close_market"]
    IN  /\ pc[t] = "idle"
        /\ UNCHANGED pc
        /\ IF slug \notin DOMAIN positions
           THEN /\ loc' = [loc EXCEPT ![t] = [call EXCEPT !.ret = "None"]]
                /\ UNCHANGED <<positions, closed_markets, current_capital,
                               closed_trades>>
           ELSE /\ current_capital' =
                      [current_capital EXCEPT ![coin] = @ + pnl]
                /\ IF LogRaises(log_ok)
                   THEN /\ loc' = [loc EXCEPT ![t] =
                                     [call EXCEPT !.ret = "None"]]
                        /\ UNCHANGED <<positions, closed_markets,
                                       closed_trades>>
                   ELSE /\ closed_trades' = [closed_trades EXCEPT ![coin] =
                              Append(@, [market_slug |-> slug, pnl |-> pnl,
                                         payout |-> payout,
                                         total_cost |-> total_cost])]
                        /\ closed_markets' = closed_markets \cup {slug}
                        /\ positions' = [s \in DOMAIN positions \ {slug} |->
                                            positions[s]]
                        /\ loc' = [loc EXCEPT ![t] =
                                     [call EXCEPT !.ret = "trade"]]
        /\ UNCHANGED <<last_entry, lock, cfgVars, safetyVars,
                       blocked_markets, market_start_prices,
                       witnessed_market_switch, feed_slug, mv, sv,
                       chain_balance>>

\* a call is counted, and so is a write of the trade log that fails
Counted(log_ok, writes) ==
    hist' = [hist EXCEPT !.closes = @ + 1,
                         !.log_failures = IF log_ok \/ ~writes THEN @
                                          ELSE @ + 1]

\* the market's winner is redeemed and the position is closed
LedgerClose(t) ==
    /\ hist.closes < MaxCloses
    /\ \E winner \in Sides, log_ok \in BOOLEAN :
          /\ CloseMarket(t, ExitSlug, winner, log_ok)
          /\ Counted(log_ok, ExitSlug \in DOMAIN positions)

\* an exit trigger calls close_market_early_exit
LedgerExit(t) ==
    /\ pc[t] = "idle"
    /\ hist.closes < MaxCloses
    /\ \E exit_price \in ExitPrices, log_ok \in BOOLEAN :
          /\ ExitBegin(t, ExitSlug, exit_price, log_ok)
          /\ Counted(log_ok, ExitSlug \in DOMAIN positions
                             /\ ExitSlug \notin closed_markets)

\* the early exit ends; the write of the updated record may fail
LedgerFinish(t) ==
    \E log_ok \in BOOLEAN :
       /\ ExitFinish(t, log_ok)
       /\ hist' = [hist EXCEPT !.log_failures =
             IF ~log_ok /\ pc[t] = "cx_update"
                /\ CorrectionDue(loc[t].exit.real_sells_executed,
                                 loc[t].exit.real_payout)
             THEN @ + 1 ELSE @]

\* the strategy enters the market again; with an executor and token ids
\* the entry would go through place_buy_order, which this specification
\* leaves to SpecBuy
LedgerEnter(t) ==
    /\ pc[t] = "idle"
    /\ hist.entries < MaxEntries
    /\ ~(order_executor /\ ExitSlug \in token_ids_cache)
    /\ \E side \in Sides : EnterBegin(t, ExitSlug, side, 50, 1, 50, 50)
    /\ hist' = [hist EXCEPT !.entries = @ + 1]
    /\ UNCHANGED <<exitVars, cfgVars, safetyVars, blocked_markets,
                   market_start_prices, witnessed_market_switch,
                   feed_slug, mv, sv, chain_balance>>

\* a position held in live mode, with or without an executor wired
InitLedger == InitExit /\ ~dry_run

NextLedger ==
    \/ LedgerEnter(1)
    \/ LedgerClose(1)
    \/ LedgerExit(1)
    \/ LifeExitSell(1)
    \/ TickSell(1)
    \/ ExitSellResult(1)
    \/ LedgerFinish(1)
    \/ CbClosed(1)

SpecLedger == InitLedger /\ [][NextLedger]_vars

\* ------------------------------------------------------------------------
\* Properties of SpecLedger
\* ------------------------------------------------------------------------
\* a write of the trade log fails in this step
LogFails == hist'.log_failures > hist.log_failures

\* the call that ends in this step returns no trade
ReturnsNone ==
    IF pc'[1] = "exit_returned" THEN loc'[1].exit.ret = "None"
    ELSE loc'[1].ret = "None"

\* C12: whenever persisting the trade record fails during close_market or
\* close_market_early_exit, the position is still open afterwards, the slug
\* was not added to closed_markets, nothing was appended to closed_trades,
\* the call has issued no sell order and it returns no trade.
C12_FailedPersistenceLeavesPositionOpen ==
    [][LogFails =>
          /\ ExitSlug \in DOMAIN positions'
          /\ closed_markets' = closed_markets
          /\ closed_trades' = closed_trades
          /\ pc[1] = "idle"
          /\ ReturnsNone]_vars

\* What does hold (auxiliary to C12): a failure of the first write, the one
\* before the position is deleted, aborts the close as C12 says.
FirstWriteFailureAborts ==
    [][(LogFails /\ pc[1] = "idle") =>
          /\ UNCHANGED <<positions, closed_markets, closed_trades>>
          /\ ExitSlug \in DOMAIN positions
          /\ ReturnsNone]_vars

\* C14: a step that blocks, unblocks or marks closing a market of coin A
\* leaves every other coin untouched: for every coin B other than A and
\* every slug s, is_market_blocked(s, B) and is_market_closing(s, B) have
\* the same value before and after the step.
C14_OtherCoinsUntouched ==
    [][\A A \in COINS :
          (\/ blocked_markets'[A] # blocked_markets[A]
           \/ market_start_prices'[A] # market_start_prices[A])
          => \A B \in COINS \ {A}, s \in Slugs :
                /\ is_market_blocked(s, B)' = is_market_blocked(s, B)
                /\ is_market_closing(s, B)' = is_market_closing(s, B)]_vars

\* an exit has marked btc's market closing and blocked it while eth's
\* market is active, not blocked and still holds its position
C14_Witness ==
    /\ is_market_blocked(<<"btc", 1>>, "btc")
    /\ is_market_closing(<<"btc", 1>>, "btc")
    /\ ~is_market_blocked(<<"eth", 1>>, "eth")
    /\ ~is_market_blocked(<<"btc", 1>>, "eth")
    /\ ~is_market_closing(<<"eth", 1>>, "eth")
    /\ <<"eth", 1>> \in DOMAIN positions

\* thread t runs check_coin_sys2 in this step
TimerEvaluates(t) ==
    /\ pc[t] = "idle"
    /\ loc'[t].path = "timer"
    /\ loc'[t] # loc[t] \/ pc'[t] # pc[t]

\* C16: the timer path agrees with the price-update path: a run of
\* check_coin_sys2 fires an exit trigger exactly when on_price_update,
\* given the same feed state, clock and ledger, would fire one.
C16_TimerAgreesWithPriceUpdate ==
    [][\A t \in Threads :
          TimerEvaluates(t)
             => LET l == loc'[t]
                    coin == CoinOf(l.slug)
                IN  (pc'[t] = "cb_check")
                    <=> /\ ~Inactive(StatusOf(coin, l.slug, ST_UNTRACKED))
                        /\ PriceUpdateFires(l.slug, l.up_ask, l.down_ask,
                               l.up_ask_ts, l.down_ask_ts, l.now)]_vars

\* What does hold (auxiliary to C16): a run of check_coin_sys2 never
\* fires an exit trigger, since no strategy is registered under the name
\* it looks up.
TimerNeverFires ==
    [][\A t \in Threads : TimerEvaluates(t) => pc'[t] = "idle"]_vars

\* ------------------------------------------------------------------------
\* Locking of the status maps and of the blocked-market registry (checked
\* under Spec)
\* ------------------------------------------------------------------------
\* the positions of a callback whose step runs inside a `with market_lock:`
\* block (main.py:1436-1444, 1531-1534, 1547-1548, 1740-1745)
MarketLockLabels == {"idle", "cb_check", "cb_mark", "cb_entry"}

\* the positions of a thread whose step runs inside a
\* `with _blocked_markets_lock:` block (order_executor.py:66, 82, 99)
RegistryLockLabels == {"cb_block", "pbo_blocked", "fak_blocked"}

\* this step is taken by a thread inside one of the blocks `labels`; the
\* main loop (mv) takes no lock anywhere in lines 1817-2007
StepInside(labels) ==
    \E t \in Threads : pc[t] \in labels /\ pc'[t] # pc[t]

\* C18: every step that changes a coin's status map is taken while
\* holding market_lock, and every step that changes the blocked-market
\* registry is taken while holding the registry lock.
C18_MutationsUnderLock ==
    [][/\ market_start_prices' # market_start_prices
            => StepInside(MarketLockLabels)
       /\ blocked_markets' # blocked_markets
            => StepInside(RegistryLockLabels)]_vars

\* What does hold (auxiliary to C18): the registry changes only under its
\* lock, and a status is set to closing only under market_lock.
RegistryAndClosingUnderLock ==
    [][/\ blocked_markets' # blocked_markets
            => StepInside(RegistryLockLabels)
       /\ \A c \in COINS, s \in Slugs :
             (/\ StatusOf(c, s, ST_UNTRACKED)' = ST_CLOSING
              /\ StatusOf(c, s, ST_UNTRACKED) # ST_CLOSING)
             => StepInside(MarketLockLabels)]_vars

\* ------------------------------------------------------------------------
\* The ledger after an early exit (checked under Spec)
\* ------------------------------------------------------------------------
\* C19: once close_market_early_exit has closed a slug, the ledger holds
\* no open position for it, whatever entries were in flight or had passed
\* the status check when the exit fired.
C19_ClosedSlugHasNoPosition ==
    \A slug \in closed_markets : slug \notin DOMAIN positions

\* ------------------------------------------------------------------------
\* The capital of a ledger (checked under SpecLedger)
\* ------------------------------------------------------------------------
RECURSIVE SumPnl(_)
\* the sum of the pnl fields of a sequence of trade records
SumPnl(trades) ==
    IF trades = <<>> THEN 0
    ELSE Head(trades).pnl + SumPnl(Tail(trades))

\* no enter, close or early-exit call is running
LedgerAtRest == \A t \in Threads : pc[t] = "idle"

\* C20: between operations, current_capital is the starting capital (0
\* here) plus the sum of the pnl of the trades in closed_trades, also
\* after operations whose write of the trade log failed.
C20_CapitalIsSumOfPnl ==
    LedgerAtRest
    => \A c \in COINS : current_capital[c] = SumPnl(closed_trades[c])

\* What does hold (auxiliary to C20): the same equation as long as no
\* write of the trade log has failed.
CapitalIsSumOfPnlWithoutLogFailure ==
    (LedgerAtRest /\ hist.log_failures = 0)
    => \A c \in COINS : current_capital[c] = SumPnl(closed_trades[c])

\* ------------------------------------------------------------------------
\* SpecRetry : one callback thread handles the price updates of both coins;
\* the first write of the trade log in close_market_early_exit may fail.
\* Fairness: the thread keeps running, price updates keep arriving for
\* every coin, and a write that is attempted again and again succeeds.
\* ------------------------------------------------------------------------
\* a price update arrives for `coin`
TickFor(t, coin) ==
    \E ask \in TickAsks, ts \in TickStamps :
          TickStart(t, coin, ask[1], ask[2], ts[1], ts[2])

\* lines 1553-1561: close_market_early_exit is called; a failed first write
\* of the trade log is counted
RetryClose(t, log_ok) ==
    /\ pc[t] = "cb_close"
    /\ ExitBegin(t, loc[t].slug, loc[t].price, log_ok)
    /\ hist' = [hist EXCEPT !.log_failures =
          IF /\ LogRaises(log_ok)
             /\ loc[t].slug \in DOMAIN positions
             /\ loc[t].slug \notin closed_markets
          THEN @ + 1 ELSE @]

NextRetry ==
    \/ \E coin \in COINS : TickFor(1, coin)
    \/ \E now \in TickClock : TickEval(1, now)
    \/ CbCheck(1)
    \/ CbMark(1)
    \/ CbBlock(1)
    \/ \E log_ok \in BOOLEAN : RetryClose(1, log_ok)
    \/ LifeExitSell(1)
    \/ TickSell(1)
    \/ ExitSellResult(1)
    \/ ExitFinish(1, TRUE) /\ UNCHANGED hist
    \/ CbClosed(1)

SpecRetry ==
    /\ InitTick
    /\ [][NextRetry]_vars
    /\ WF_vars(NextRetry)
    /\ \A coin \in COINS : SF_vars(TickFor(1, coin))
    /\ SF_vars(RetryClose(1, TRUE))

\* the slug is marked closing while the ledger holds a position for it
ClosingWithPosition(slug) ==
    /\ StatusOf(CoinOf(slug), slug, ST_UNTRACKED) = ST_CLOSING
    /\ slug \in DOMAIN positions

\* the position of the slug has been closed with a persisted record
PositionClosed(slug) ==
    /\ slug \notin DOMAIN positions
    /\ slug \in closed_markets
    /\ \E i \in DOMAIN closed_trades[CoinOf(slug)] :
          closed_trades[CoinOf(slug)][i].market_slug = slug

\* C21: a slug set to closing while the ledger holds a position for it
\* has that position closed eventually, with a persisted trade record,
\* also when the first close attempt aborts on a persistence failure.
C21_ClosingPositionIsClosed ==
    \A slug \in Slugs : ClosingWithPosition(slug) ~> PositionClosed(slug)

\* What does hold (auxiliary to C21): the position is closed eventually
\* unless the first write of the trade log failed.
ClosedUnlessLogFailed ==
    \A slug \in Slugs :
        ClosingWithPosition(slug)
        ~> (PositionClosed(slug) \/ hist.log_failures > 0)

\* What does hold (auxiliary to C21): after an aborted close the slug
\* stays closing and no later price update reaches the exit check, so the
\* position stays in the ledger.
AbortedCloseIsNotRetried ==
    [][\A slug \in Slugs :
          (ClosingWithPosition(slug) /\ hist.log_failures > 0
             /\ \A t \in Threads : pc[t] \in {"idle", "exit_returned"}
                                       \/ loc[t].slug # slug)
          => ClosingWithPosition(slug)']_vars

\* ------------------------------------------------------------------------
\* SpecWallet : the early exit of SpecExit for a wallet that may hold
\* contracts the ledger does not track. The ledger starts empty with every
\* process (trader.py:133) while the wallet keeps what earlier runs
\* bought, and a buy whose answer is lost fills without being recorded.
\* ------------------------------------------------------------------------
\* before the exit starts the wallet gains one contract of a side that the
\* ledger does not record
UntrackedFill(side) ==
    LET token == <<ExitSlug, side>>
    IN  /\ pc[1] = "idle"
        /\ ExitSlug \in DOMAIN positions
        /\ chain_balance[token] = positions[ExitSlug][side].total_shares
        /\ chain_balance' = [chain_balance EXCEPT ![token] = @ + Milli(1)]
        /\ UNCHANGED <<pc, loc, sv, traderVars, cfgVars, safetyVars,
                       marketVars>>

NextWallet ==
    \/ NextExit
    \/ \E side \in Sides : UntrackedFill(side)

SpecWallet == InitExit /\ [][NextWallet]_vars

\* C24: when the early exit comes to a side of the market, sell_position
\* is called for that side if the wallet holds at least the dust threshold
\* of its token, whatever contract count the ledger tracked for the side.
C24_ExitSellsWhatTheWalletHolds ==
    [][\A t \in Threads :
          LET x == loc[t].exit
              token == <<x.slug, x.side>>
          IN  (pc[t] = "cx_sell" /\ pc'[t] # pc[t]
                 /\ chain_balance[token] >= MIN_DUST_THRESHOLD)
              => /\ hist'.sells[token] = hist.sells[token] + 1
                 /\ sv'[t].token = token]_vars

\* What does hold (auxiliary to C24): sell_position is called for a side
\* exactly when the ledger tracked contracts for it.
ExitSellsWhatTheLedgerTracks ==
    [][\A t \in Threads :
          LET x == loc[t].exit
              token == <<x.slug, x.side>>
              side_contracts == IF x.side = "UP" THEN x.up_contracts
                                ELSE x.down_contracts
          IN  (pc[t] = "cx_sell" /\ pc'[t] # pc[t])
              => (side_contracts > 0
                    <=> hist'.sells[token] = hist.sells[token] + 1)]_vars

\* ------------------------------------------------------------------------
\* SpecExitSell : the early exit of SpecExit, in which a sell_position
\* call may also end with an exception (its log_sell_attempt calls are
\* outside its try blocks)
\* ------------------------------------------------------------------------
\* sell_position raises: the exception leaves close_market_early_exit, the
\* ledger's lock is released and MultiTrader.close_market_early_exit
\* returns None (multi_trader.py:158-160)
ExitSellRaises(t) ==
    /\ pc[t] \in SellPcs
    /\ loc[t].exit.active
    /\ ExitReturn(t, loc[t].exit, "None")
    /\ UNCHANGED <<positions, last_entry, closed_markets, current_capital,
                   closed_trades, cfgVars, safetyVars, marketVars, sv,
                   chain_balance>>

NextExitSell ==
    \/ NextExit
    \/ ExitSellRaises(1)

SpecExitSell == InitExit /\ [][NextExitSell]_vars

\* the trade record of the slug is in closed_trades
RecordKept(slug) ==
    \E i \in DOMAIN closed_trades[CoinOf(slug)] :
        closed_trades[CoinOf(slug)][i].market_slug = slug

\* C25: once close_market_early_exit has called sell_position for a side
\* of the slug, the position is out of the ledger, the slug is in
\* closed_markets and its trade record is kept, during the sells and after
\* them, whether they succeed, fail, raise or pay nothing.
C25_SellsNeverReopen ==
    \A slug \in Slugs, side \in Sides :
        hist.sells[<<slug, side>>] > 0
        => /\ slug \notin DOMAIN positions
           /\ slug \in closed_markets
           /\ RecordKept(slug)

\* an exit has returned after sells that all failed or raised
C25_Witness ==
    \E t \in Threads, side \in Sides :
        /\ pc[t] = "exit_returned"
        /\ hist.sells[<<loc[t].exit.slug, side>>] > 0
        /\ ~loc[t].exit.real_sells_executed
        /\ ~dry_run
\* ------------------------------------------------------------------------
\* SpecRpc: get_blockchain_token_balance, the query of a token balance over
\* the configured endpoints. Every caller is a sell of a position that a live
\* buy has opened, so the executor holds a wallet address whenever it is not
\* in dry run.

\* execution.rpc_config.retry_attempts
rpc_retry_attempts == 2

\* the number of configured endpoints, len(rpc_endpoints)
NEndpoints == 2

\* the largest balance an endpoint reports
MaxRpcBalance == 1

Endpoints == 1..NEndpoints

\* a request that has not completed within the timeout of its round
LATE == -2

\* what one request does in a round: the balance query_single_rpc returns, or
\* None after an exception, or no completion within the timeout
RpcOutcomes == (0..MaxRpcBalance) \cup {NONE, LATE}

\* the orders in which the requests of a round can complete
RpcOrders ==
    {o \in [Endpoints -> Endpoints] : \A e \in Endpoints : \E i \in Endpoints : o[i] = e}

\* a walk that a request returning None would end
FirstAnswerFailFast(order, outcome, i) ==
    IF i > NEndpoints THEN NONE
    ELSE IF outcome[order[i]] >= 0 THEN outcome[order[i]]
    ELSE NONE

\* the walk over the requests in the order they complete: a request that
\* returned None is passed over, the first balance is returned
RECURSIVE FirstAnswer(_, _, _)
FirstAnswer(order, outcome, i) ==
    IF i > NEndpoints THEN NONE
    ELSE IF outcome[order[i]] >= 0 THEN outcome[order[i]]
    ELSE FirstAnswer(order, outcome, i + 1)

\* one round of the retry loop. In parallel mode as_completed yields the
\* requests in completion order until the timeout; a sequential round asks
\* the endpoints in list order, each bounded by the single-request timeout,
\* whose expiry is an exception inside query_single_rpc
RoundResult(parallel, order, outcome) ==
    IF parallel /\ NEndpoints > 1
    THEN FirstAnswer(order, outcome, 1)
    ELSE FirstAnswer([e \in Endpoints |-> e], outcome, 1)

InitRpc ==
    /\ pc = [t \in Threads |-> "idle"]
    /\ loc = [t \in Threads |-> NoLocals]
    /\ positions = <<>>
    /\ closed_markets = {}
    /\ current_capital = [c \in COINS |-> 0]
    /\ closed_trades = [c \in COINS |-> <<>>]
    /\ lock = [c \in COINS |-> 0]
    /\ token_ids_cache = Slugs
    /\ order_executor = TRUE
    /\ emergency_stop = FALSE
    /\ dry_run \in BOOLEAN
    /\ sweep_enable_fallback = FALSE
    /\ \E p \in BOOLEAN : rpc = [NoRpc EXCEPT !.parallel = p]
    /\ redeem = NoRedeem
    /\ registry_call = NoCall
    /\ orders_history = 0
    /\ invested_per_market = [s \in Slugs |-> 0]
    /\ blocked_markets = [c \in COINS |-> {}]
    /\ market_start_prices = [c \in COINS |-> (<<c, 1>> :> 50)]
    /\ last_entry = NoEntry
    /\ witnessed_market_switch = [c \in COINS |-> FALSE]
    /\ feed_slug = [c \in COINS |-> <<c, 1>>]
    /\ mv = NoMain
    /\ hist = NoHist
    /\ sv = [t \in Threads |-> NoSell]
    /\ chain_balance = [k \in Tokens |-> 0]

RpcUnchanged ==
    UNCHANGED <<pc, loc, traderVars, token_ids_cache, order_executor,
                emergency_stop, dry_run, sweep_enable_fallback, redeem,
                registry_call, safetyVars, marketVars, sv, chain_balance>>

\* the call: a dry run returns 0.0 at once, a live call enters the retry loop
RpcCall ==
    /\ rpc.pc \in {"idle", "done"}
    /\ rpc' = IF dry_run
              THEN [NoRpc EXCEPT !.pc = "done", !.parallel = rpc.parallel]
              ELSE [NoRpc EXCEPT !.pc = "loop", !.parallel = rpc.parallel]
    /\ RpcUnchanged

\* one pass of the retry loop: the round returns the first balance, and the
\* loop ends with None after the last round
RpcRound ==
    /\ rpc.pc = "loop"
    /\ IF rpc.attempt >= rpc_retry_attempts
       THEN rpc' = [rpc EXCEPT !.pc = "done", !.result = NONE]
       ELSE \E outcome \in [Endpoints -> RpcOutcomes], order \in RpcOrders :
               LET balance == RoundResult(rpc.parallel, order, outcome)
               IN  rpc' = [rpc EXCEPT
                       !.attempt = rpc.attempt + 1,
                       !.outcome = outcome,
                       !.order = order,
                       !.answered = rpc.answered
                                    \/ \E e \in Endpoints : outcome[e] >= 0,
                       !.result = balance,
                       !.pc = IF balance # NONE THEN "done" ELSE "loop"]
    /\ RpcUnchanged

NextRpc == RpcCall \/ RpcRound

SpecRpc == InitRpc /\ [][NextRpc]_vars

\* the order in which the round made last has asked or heard the endpoints
RpcOrderUsed ==
    IF rpc.parallel /\ NEndpoints > 1 THEN rpc.order ELSE [e \in Endpoints |-> e]

\* C26: a live query returns the balance of the first endpoint that answers in
\* a round, whatever the endpoints before it did; it returns None only after
\* the last configured round, when no endpoint has answered in time in any
\* round, and it never goes on to another round past an endpoint that answered
C26_FirstAnswerOrAllFailed ==
    /\ (rpc.pc = "done" /\ ~dry_run /\ rpc.result = NONE) =>
           ~rpc.answered /\ rpc.attempt = rpc_retry_attempts
    /\ (rpc.pc = "done" /\ ~dry_run /\ rpc.result # NONE) =>
           \E i \in Endpoints :
              /\ rpc.outcome[RpcOrderUsed[i]] = rpc.result
              /\ \A j \in 1..(i - 1) :
                    rpc.outcome[RpcOrderUsed[j]] \in {NONE, LATE}
    /\ rpc.pc = "loop" => ~rpc.answered

\* a second round returned a balance although the request heard first failed
C26_Witness ==
    /\ rpc.pc = "done"
    /\ ~dry_run
    /\ rpc.attempt = rpc_retry_attempts
    /\ rpc.result # NONE
    /\ rpc.outcome[RpcOrderUsed[1]] = NONE

\* ------------------------------------------------------------------------
\* SpecFak: the fill-and-kill loop of place_buy_order for a live call that
\* the safety guard has admitted. The limits of the guard are configuration;
\* the targets here are those of a configuration that admits orders large
\* enough for 5 % of the target to be worth more than the minimum order.

\* the largest target of a call, in contracts
FakTarget == 40

\* targets handed to place_buy_order
FakContracts == {1, 2, FakTarget}

\* fills the venue may report for a FAK order of the given size
FakFills(order_size) ==
    {f \in {4, order_size \div 2, order_size - 2000, order_size} :
        0 < f /\ f <= order_size}

InitFak ==
    /\ pc = [t \in Threads |-> IF t = 1 THEN "pbo_blocked" ELSE "idle"]
    /\ \E slug \in BuySlugs, side \in Sides, contracts \in FakContracts,
          ask_price \in AskPrices \ {0} :
          loc = [t \in Threads |->
                   IF t = 1
                   THEN [NoLocals EXCEPT
                           !.slug = slug, !.side = side, !.price = ask_price,
                           !.contracts = contracts, !.ask_price = ask_price,
                           !.normalized_price =
                               CeilDiv(ask_price * (100 + SLIPPAGE_BUY), 100)]
                   ELSE NoLocals]
    /\ positions = <<>>
    /\ closed_markets = {}
    /\ current_capital = [c \in COINS |-> 0]
    /\ closed_trades = [c \in COINS |-> <<>>]
    /\ lock = [c \in COINS |-> 0]
    /\ token_ids_cache = Slugs
    /\ order_executor = TRUE
    /\ emergency_stop = FALSE
    /\ dry_run = FALSE
    /\ sweep_enable_fallback = FALSE
    /\ rpc = NoRpc
    /\ redeem = NoRedeem
    /\ registry_call = NoCall
    /\ orders_history = 0
    /\ invested_per_market = [s \in Slugs |-> 0]
    /\ blocked_markets = [c \in COINS |-> {}]
    /\ market_start_prices = [c \in COINS |-> (<<c, 1>> :> 50)]
    /\ last_entry = NoEntry
    /\ witnessed_market_switch = [c \in COINS |-> FALSE]
    /\ feed_slug = [c \in COINS |-> <<c, 1>>]
    /\ mv = NoMain
    /\ hist = NoHist
    /\ sv = [t \in Threads |-> NoSell]
    /\ chain_balance = [k \in Tokens |-> 0]

\* the venue's answer to the posted FAK order
VenueFak(t) ==
    \E ok \in BOOLEAN, taking_amount \in FakFills(loc[t].order_size),
       p \in {loc[t].ask_price, loc[t].normalized_price} :
       /\ ok \/ taking_amount = loc[t].order_size
       /\ FakPost(t, ok, taking_amount, taking_amount * p)

NextFak ==
    \/ PboBlocked(1)
    \/ PboClosing(1)
    \/ FakBlocked(1)
    \/ FakClosing(1)
    \/ VenueFak(1)
    \/ PboReturn(1)
    \/ EnterResult(1)
    \/ OrdersExpire
    \/ ExitElsewhere

SpecFak == InitFak /\ [][NextFak]_vars

\* the contracts of the target a call has not been filled
RemainingContracts(t) == Milli(loc[t].contracts) - loc[t].total_filled_contracts

\* the cumulative fill of a call has reached the target-fill fraction
TargetFillReached(t) ==
    loc[t].total_filled_contracts * 100
        >= Milli(loc[t].contracts) * TARGET_FILL_PERCENT

\* order_size_usd of the order for the remainder, in cents
RemainingUsd(t) == RoundDiv(RemainingContracts(t) * loc[t].normalized_price, 1000)

\* C27: a call of place_buy_order posts at most max_fak_attempts orders, and
\* it posts no order once the cumulative fill has reached the target
\* contracts times the target-fill fraction.
C27_AttemptsAndTargetBoundOrders ==
    [][\A t \in Threads :
          loc'[t].posted > loc[t].posted
          => /\ loc'[t].posted <= MAX_FAK_ATTEMPTS
             /\ ~TargetFillReached(t)]_vars

\* a call has stopped at the target-fill fraction with attempts left and a
\* remainder that is worth an order
C27_Witness ==
    \E t \in Threads :
        /\ pc[t] = "pbo_return"
        /\ loc[t].posted > 0
        /\ loc[t].posted < MAX_FAK_ATTEMPTS
        /\ TargetFillReached(t)
        /\ RemainingContracts(t) > 10
        /\ RemainingUsd(t) >= MIN_ORDER_USD

\* a call has posted max_fak_attempts orders short of the target
FakAttemptsUsedUp ==
    \E t \in Threads :
        /\ pc[t] = "pbo_return"
        /\ loc[t].posted = MAX_FAK_ATTEMPTS
        /\ ~TargetFillReached(t)

\* the sizing step of an attempt is taken for a remainder that neither a
\* block nor the target-fill test keeps from being ordered
SizesRemainder(t) ==
    /\ pc[t] = "fak_closing"
    /\ pc'[t] # "fak_closing"
    /\ ~is_market_closing(loc[t].slug, CoinOf(loc[t].slug))
    /\ RemainingContracts(t) > 10
    /\ ~TargetFillReached(t)

\* C28 as stated: every FAK order is sized to the remaining contracts, and
\* its notional is floored at the minimum order value, so that a remainder
\* worth less than the minimum is still submitted and no submitted order is
\* worth less than the minimum.
C28_RemainderFlooredAtMinimum ==
    [][\A t \in Threads :
          SizesRemainder(t)
          => /\ pc'[t] = "fak_post"
             /\ loc'[t].order_size = OrderSize(RemainingContracts(t))]_vars

\* C28 as the code has it: every FAK order is sized to the remaining
\* contracts and is worth at least the minimum order value, because a
\* remainder worth less than the minimum ends the loop without an order.
C28_RemainderBelowMinimumEndsLoop ==
    [][\A t \in Threads :
          /\ loc'[t].posted > loc[t].posted
             => /\ loc[t].order_size = OrderSize(RemainingContracts(t))
                /\ RemainingUsd(t) >= MIN_ORDER_USD
          /\ (SizesRemainder(t) /\ RemainingUsd(t) < MIN_ORDER_USD)
             => /\ pc'[t] = "pbo_return"
                /\ loc'[t].posted = loc[t].posted]_vars

\* after a partial fill the loop has ended, with attempts left, on a
\* remainder worth less than the minimum order value
C28_Witness ==
    \E t \in Threads :
        /\ pc[t] = "pbo_return"
        /\ loc[t].posted > 0
        /\ loc[t].posted < MAX_FAK_ATTEMPTS
        /\ loc[t].block_seen = 0
        /\ ~TargetFillReached(t)
        /\ RemainingContracts(t) > 10
        /\ RemainingUsd(t) < MIN_ORDER_USD

\* ------------------------------------------------------------------------
\* SpecStop: the buy path with the emergency stop of the safety guard. The
\* constructor of the executor activates it when the venue client cannot be
\* set up; the method is open to any holder of the guard at any time.

\* SafetyGuard.activate_emergency_stop(reason)
activate_emergency_stop ==
    /\ emergency_stop' = TRUE
    /\ UNCHANGED <<pc, loc, traderVars, token_ids_cache, order_executor,
                   dry_run, sweep_enable_fallback, rpc, redeem,
                   registry_call, safetyVars, marketVars, sv, chain_balance>>

NextStop == NextBuy \/ activate_emergency_stop

SpecStop == InitBuy /\ [][NextStop]_vars

StopLatchesAndDeniesNewCalls ==
    [][emergency_stop
       => /\ emergency_stop'
          /\ \A t \in Threads :
                (pc[t] = "pbo_safety" /\ pc'[t] # pc[t])
                => /\ pc'[t] = "epc_result"
                   /\ loc'[t].result.error = "EMERGENCY_STOP_ACTIVE"
                   /\ loc'[t].posted = 0]_vars

\* ------------------------------------------------------------------------
\* SpecLoop: the market tracking of the main loop for every coin, with a
\* feed that moves from market to market and reports a reference price or
\* none (0).

\* the reference prices the feed reports to the main loop, in cents
LoopPrices == {0, 50}

NextLoop ==
    \/ \E coin \in COINS, price \in LoopPrices : MainTop(coin, price)
    \/ MainSwitch
    \/ MainTrack
    \/ MainWritePrice
    \/ \E in_window \in BOOLEAN : MainActive(in_window)
    \/ MainRearm
    \/ \E coin \in COINS : FeedSwitch(coin)

SpecLoop == Init /\ [][NextLoop]_vars

\* the main loop observes its current market for the first time in this step
FirstObservation ==
    /\ mv.pc = "m_track"
    /\ mv'.pc # "m_track"
    /\ mv.market_slug \notin DOMAIN market_start_prices[mv.coin]

\* the witnessed-switch flags change only from unset to set, and only in a
\* pass of the coin's own market that finds another market of it tracked
FlagSetBySwitchOnly ==
    \A coin \in COINS :
        witnessed_market_switch'[coin] # witnessed_market_switch[coin]
        => /\ witnessed_market_switch'[coin]
           /\ mv.coin = coin
           /\ mv.market_slug[1] = coin
           /\ \E old \in DOMAIN market_start_prices[coin] :
                 old # mv.market_slug

\* C31 as stated: the first observation of a market marks it skip if no
\* switch of the coin has been witnessed and pending otherwise; the flag is
\* set only by an observed change of the coin's market and never cleared.
C31_FirstObservationSkipOrPending ==
    [][/\ FirstObservation
          => market_start_prices'[mv.coin][mv.market_slug]
                = IF witnessed_market_switch[mv.coin]
                  THEN ST_PENDING ELSE ST_SKIP
       /\ FlagSetBySwitchOnly]_vars

\* C31 as the code has it: the first observation marks the market skip if
\* no switch of the coin has been witnessed; otherwise it marks it active
\* with the reference price the feed reports, and pending only if the feed
\* reports none; the flag is set only by an observed change of the coin's
\* market and never cleared.
C31_FirstObservationSkipOrPriced ==
    [][/\ FirstObservation
          => market_start_prices'[mv.coin][mv.market_slug]
                = IF ~witnessed_market_switch[mv.coin] THEN ST_SKIP
                  ELSE IF mv.price > 0 THEN mv.price ELSE ST_PENDING
       /\ FlagSetBySwitchOnly]_vars

\* after a witnessed switch the next market has been observed with a price
\* and is active without having been pending
C31_Witness ==
    /\ mv.pc = "m_active"
    /\ witnessed_market_switch[mv.coin]
    /\ mv.market_slug[2] > 1
    /\ mv.price > 0
    /\ StatusOf(mv.coin, mv.market_slug, ST_UNTRACKED) = mv.price

\* a market first observed before any switch is marked skip
FirstMarketSkipped ==
    /\ mv.pc = "m_active"
    /\ ~witnessed_market_switch[mv.coin]
    /\ StatusOf(mv.coin, mv.market_slug, ST_UNTRACKED) = ST_SKIP

\* the main loop completes the pass of a coin in this step
PassCompletes == mv.pc # "m_top" /\ mv'.pc = "m_top"

\* C32: a pass that finds a market other than the current one tracked
\* removes it, whatever branch handles the switch, so that when the pass
\* completes the coin's status map holds no market but the current one.
C32_PassLeavesCurrentSlugOnly ==
    [][PassCompletes
       => DOMAIN market_start_prices'[mv.coin] \subseteq {mv.market_slug}]_vars

\* the part of C32 that the code keeps: the switch handling itself removes
\* every market other than the current one, on every branch
SwitchRemovesOldSlugs ==
    [][(mv.pc = "m_switch" /\ mv'.pc # "m_switch")
       => DOMAIN market_start_prices'[mv.coin] \subseteq {mv.market_slug}]_vars

\* a callback passes the status test at its head in this step
UpdateProcessed(t) == pc[t] = "idle" /\ pc'[t] = "cb_stats"

\* the status of the market of thread t's update
UpdateStatus(t) == StatusOf(CoinOf(loc'[t].slug), loc'[t].slug, ST_UNTRACKED)

\* C33 as stated: a price update is processed, and so can trigger an exit or
\* a buy, only if its market is active, that is has a reference price; an
\* update for a skipped, pending, closing or untracked market is discarded.
C33_OnlyActiveUpdatesProcessed ==
    [][\A t \in Threads : UpdateProcessed(t) => UpdateStatus(t) > 0]_vars

\* C33 as the code has it: an update for a skipped, closing or untracked
\* market is discarded; an update for a pending market is processed like one
\* for an active market.
C33_SkipClosingUntrackedDiscarded ==
    [][\A t \in Threads :
          /\ UpdateProcessed(t)
             => UpdateStatus(t) \notin {ST_SKIP, ST_CLOSING, ST_UNTRACKED}
          /\ (pc[t] = "idle" /\ loc'[t] # loc[t]
                 /\ UpdateStatus(t) \in {ST_SKIP, ST_CLOSING, ST_UNTRACKED})
             => /\ pc'[t] = "idle"
                /\ UNCHANGED <<positions, market_start_prices,
                               blocked_markets, hist, chain_balance>>]_vars

\* the update of a pending market has led to a buy
C33_Witness ==
    \E t \in Threads :
        /\ pc[t] = "pbo_safety"
        /\ StatusOf(CoinOf(loc[t].slug), loc[t].slug, ST_UNTRACKED) = ST_PENDING

\* the update of a skipped market has been discarded
SkippedUpdateDiscarded ==
    \E t \in Threads :
        /\ pc[t] = "idle"
        /\ loc[t].slug = feed_slug[LifeCoin]
        /\ loc[t] # NoLocals
        /\ StatusOf(LifeCoin, loc[t].slug, ST_UNTRACKED) = ST_SKIP

\* ------------------------------------------------------------------------
\* SpecTrigger: the exit evaluation of price updates for positions bought
\* at different prices, up to the trigger's block of the market.

\* the positions held when the ticks arrive: (UP, DOWN) contracts
TriggerHeld == {<<2, 0>>, <<1, 2>>, <<0, 2>>}

\* the prices at which the positions were bought, in cents
TriggerCosts == {50, 70}

\* the UP and DOWN ask prices the feed reports, in cents
TriggerAsks == {<<40, 60>>, <<45, 60>>, <<60, 40>>, <<52, 50>>, <<40, 40>>}

InitTrigger ==
    /\ pc = [t \in Threads |-> "idle"]
    /\ loc = [t \in Threads |-> NoLocals]
    /\ closed_markets = {}
    /\ current_capital = [c \in COINS |-> 0]
    /\ closed_trades = [c \in COINS |-> <<>>]
    /\ lock = [c \in COINS |-> 0]
    /\ token_ids_cache = Slugs
    /\ order_executor = TRUE
    /\ emergency_stop = FALSE
    /\ dry_run = FALSE
    /\ sweep_enable_fallback = FALSE
    /\ rpc = NoRpc
    /\ redeem = NoRedeem
    /\ registry_call = NoCall
    /\ orders_history = 0
    /\ invested_per_market = [s \in Slugs |-> 0]
    /\ blocked_markets = [c \in COINS |-> {}]
    /\ market_start_prices = [c \in COINS |-> (<<c, 1>> :> 50)]
    /\ last_entry = NoEntry
    /\ witnessed_market_switch = [c \in COINS |-> FALSE]
    /\ feed_slug = [c \in COINS |-> <<c, 1>>]
    /\ mv = NoMain
    /\ hist = NoHist
    /\ sv = [t \in Threads |-> NoSell]
    /\ \E h \in TriggerHeld, cost \in TriggerCosts :
          /\ positions = [s \in {<<c, 1>> : c \in COINS} |->
                [UP   |-> [total_shares |-> Milli(h[1]),
                           total_invested |-> Milli(h[1]) * cost,
                           entries |-> IF h[1] > 0 THEN 1 ELSE 0],
                 DOWN |-> [total_shares |-> Milli(h[2]),
                           total_invested |-> Milli(h[2]) * cost,
                           entries |-> IF h[2] > 0 THEN 1 ELSE 0]]]
          /\ chain_balance = [k \in Tokens |->
                IF k[1][2] # 1 THEN 0
                ELSE IF k[2] = "UP" THEN Milli(h[1]) ELSE Milli(h[2])]

\* a price update arrives for a coin
TriggerTick(t) ==
    \E coin \in COINS, ask \in TriggerAsks, ts \in TickStamps :
          TickStart(t, coin, ask[1], ask[2], ts[1], ts[2])

NextTrigger ==
    \E t \in Threads :
       \/ TriggerTick(t)
       \/ \E now \in TickClock : TickEval(t, now)
       \/ CbCheck(t)
       \/ CbMark(t)
       \/ CbBlock(t)

SpecTrigger == InitTrigger /\ [][NextTrigger]_vars

\* the ask of the outcome of which the position holds more contracts
AskOfLargerSide(slug, up_ask, down_ask) ==
    IF positions[slug].UP.total_shares > positions[slug].DOWN.total_shares
    THEN up_ask ELSE down_ask

\* the stop-loss of the claim: unrealized PnL at or below the coin's
\* configured threshold, a fixed amount or a percentage of the invested
StopLossHolds(slug, up_ask, down_ask) ==
    LET cfg == sl_config[CoinOf(slug)]
        threshold_x100 == IF cfg.type = "percent"
                          THEN TotalInvested(slug) * cfg.value
                          ELSE cfg.value * 100
    IN  /\ cfg.enabled
        /\ cfg.type \in {"fixed", "percent"}
        /\ UnrealizedPnl(slug, up_ask, down_ask) * 100 <= threshold_x100

\* the flip-stop of the claim: the ask of our side at or below the floor
FlipStopHolds(slug, up_ask, down_ask) ==
    AskOfLargerSide(slug, up_ask, down_ask) <= FLIP_STOP_PRICE

\* thread t evaluates, in this step, a tick with valid prices for a market
\* that is tracked and not closing and in which a position is held
EvaluatesHeldMarket(t) ==
    LET l == loc[t]
    IN  /\ pc[t] = "tk_eval"
        /\ pc'[t] # "tk_eval"
        /\ StatusOf(CoinOf(l.slug), l.slug, ST_UNTRACKED) >= 0
        /\ l.slug \in DOMAIN positions
        /\ TotalInvested(l.slug) > 0
        /\ validate_prices(l.up_ask, l.down_ask, l.up_ask_ts, l.down_ask_ts,
                           loc'[t].now) = "OK"

FiredByStopLossAlone ==
    \E t \in Threads :
        /\ pc[t] = "cb_check"
        /\ loc[t].path = "callback"
        /\ loc[t].slug \in DOMAIN positions
        /\ StopLossHolds(loc[t].slug, loc[t].up_ask, loc[t].down_ask)
        /\ ~FlipStopHolds(loc[t].slug, loc[t].up_ask, loc[t].down_ask)

\* a tick with valid prices has been evaluated without firing
ValidTickDidNotFire ==
    \E t \in Threads :
        /\ pc[t] = "idle"
        /\ loc[t].path = "callback"
        /\ loc[t].now > 0
        /\ loc[t].slug \in DOMAIN positions
        /\ validate_prices(loc[t].up_ask, loc[t].down_ask, loc[t].up_ask_ts,
                           loc[t].down_ask_ts, loc[t].now) = "OK"

\* ------------------------------------------------------------------------
\* The success flag of sell_position (checked under SpecSell)
\* ------------------------------------------------------------------------
\* C35: a sell_position call returns success = True only when at least 99%
\* of the initial on-chain balance was sold or the remaining balance it
\* reports is at most the dust threshold.
C35_SuccessMeansSoldOrDust ==
    \A t \in Threads :
        (pc[t] = "sell_returned" /\ sv[t].result.success)
        => \/ sv[t].result.filled_size * 100 >= 99 * sv[t].initial_balance
           \/ sv[t].result.remaining_balance <= MIN_DUST_THRESHOLD

\* What the final report does guarantee (auxiliary to C35): success means
\* that the balance the call last read is at most the dust threshold or
\* below a tenth of the initial balance.
SuccessMeansLessThanTenthLeft ==
    \A t \in Threads :
        (pc[t] = "sell_returned" /\ sv[t].result.success)
        => \/ sv[t].result.remaining_balance * 10 < sv[t].initial_balance
           \/ sv[t].result.remaining_balance <= MIN_DUST_THRESHOLD

\* ------------------------------------------------------------------------
\* SpecRedeem : the redeem collector's thread and the command listener's
\* thread redeem positions through redeem_position
\* ------------------------------------------------------------------------
\* positions one run finds redeemable
MaxRedeemable == 2

\* runs of the collector and of the operator's handlers in a behaviour
MaxRedeemRuns == 3

\* redeem_position: max_gas_retries
max_gas_retries == 5

InitRedeem ==
    /\ pc = [t \in Threads |-> "idle"]
    /\ loc = [t \in Threads |-> NoLocals]
    /\ positions = <<>>
    /\ closed_markets = {}
    /\ current_capital = [c \in COINS |-> 0]
    /\ closed_trades = [c \in COINS |-> <<>>]
    /\ lock = [c \in COINS |-> 0]
    /\ token_ids_cache = Slugs
    /\ order_executor = TRUE
    /\ emergency_stop = FALSE
    /\ dry_run \in BOOLEAN
    /\ sweep_enable_fallback = FALSE
    /\ rpc = NoRpc
    /\ redeem = NoRedeem
    /\ registry_call = NoCall
    /\ orders_history = 0
    /\ invested_per_market = [s \in Slugs |-> 0]
    /\ blocked_markets = [c \in COINS |-> {}]
    /\ market_start_prices = [c \in COINS |-> (<<c, 1>> :> 50)]
    /\ last_entry = NoEntry
    /\ witnessed_market_switch = [c \in COINS |-> FALSE]
    /\ feed_slug = [c \in COINS |-> <<c, 1>>]
    /\ mv = NoMain
    /\ hist = NoHist
    /\ sv = [t \in Threads |-> NoSell]
    /\ chain_balance = [k \in Tokens |-> 0]

RedeemUnchanged ==
    UNCHANGED <<pc, loc, traderVars, token_ids_cache, order_executor,
                emergency_stop, dry_run, sweep_enable_fallback, rpc,
                registry_call, safetyVars, marketVars, sv, chain_balance>>

\* the thread has no run under way
RedeemAtRest(th) == redeem.pc[th] = "idle" /\ redeem.queue[th] = 0

\* a run starts with n positions to redeem one after the other
RedeemRun(th, n) ==
    /\ RedeemAtRest(th)
    /\ redeem.runs < MaxRedeemRuns
    /\ redeem' = [redeem EXCEPT !.queue[th] = n, !.runs = @ + 1]
    /\ RedeemUnchanged

\* SimpleRedeemCollector._check_and_redeem_all, on the collector's thread
check_and_redeem_all ==
    \E n \in 0..MaxRedeemable : RedeemRun("collector", n)

\* handle_redeem_all_callback, on the command listener's thread
handle_redeem_all_callback ==
    \E n \in 0..MaxRedeemable : RedeemRun("listener", n)

\* handle_redeem_position_callback, on the command listener's thread
handle_redeem_position_callback == RedeemRun("listener", 1)

\* redeem_position returns; _redeem_one returns and the run goes on
RedeemReturn(th, r) ==
    [r EXCEPT !.pc[th] = "idle", !.queue[th] = @ - 1, !.nonce[th] = -1,
              !.retry[th] = 1]

\* _redeem_one up to the call of redeem_position: without token ids the
\* position is skipped; a dry run returns at once
RedeemOne(th, has_tokens) ==
    /\ redeem.pc[th] = "idle"
    /\ redeem.queue[th] > 0
    /\ redeem' = IF has_tokens /\ ~dry_run
                 THEN [redeem EXCEPT !.pc[th] = "rp_check"]
                 ELSE RedeemReturn(th, redeem)
    /\ RedeemUnchanged

\* two transactions built on the same transaction count are pending
SharesNonce(r) ==
    \E a, b \in RedeemThreads :
        /\ a # b
        /\ r.pc[a] = "rp_built" /\ r.pc[b] = "rp_built"
        /\ r.nonce[a] = r.nonce[b]

\* redeem_position, lines 2097-2203: the balance and oracle checks, then
\* the transaction is built on the wallet's transaction count
RedeemBuild(th, redeemable) ==
    /\ redeem.pc[th] = "rp_check"
    /\ redeem' =
         IF redeemable
         THEN LET built == [redeem EXCEPT !.pc[th] = "rp_built",
                                           !.nonce[th] = redeem.chain_nonce]
              IN  [built EXCEPT !.shared = @ \/ SharesNonce(built)]
         ELSE RedeemReturn(th, redeem)
    /\ RedeemUnchanged

\* redeem_position, lines 2205-2346: the transaction is sent; one built on
\* a used transaction count is refused, and rebuilt when the node calls it
\* an underpriced replacement
RedeemSend(th, underpriced) ==
    /\ redeem.pc[th] = "rp_built"
    /\ redeem' =
         IF redeem.nonce[th] = redeem.chain_nonce
         THEN [RedeemReturn(th, redeem) EXCEPT !.chain_nonce = @ + 1]
         ELSE IF underpriced /\ redeem.retry[th] < max_gas_retries
         THEN LET built == [redeem EXCEPT !.retry[th] = @ + 1,
                                           !.nonce[th] = redeem.chain_nonce]
              IN  [built EXCEPT !.shared = @ \/ SharesNonce(built)]
         ELSE RedeemReturn(th, redeem)
    /\ RedeemUnchanged

NextRedeem ==
    \/ check_and_redeem_all
    \/ handle_redeem_all_callback
    \/ handle_redeem_position_callback
    \/ \E th \in RedeemThreads, has_tokens \in BOOLEAN :
          RedeemOne(th, has_tokens)
    \/ \E th \in RedeemThreads, redeemable \in BOOLEAN :
          RedeemBuild(th, redeemable)
    \/ \E th \in RedeemThreads, underpriced \in BOOLEAN :
          RedeemSend(th, underpriced)

SpecRedeem == InitRedeem /\ [][NextRedeem]_vars

\* the threads inside redeem_position
RedeemsInProgress == {th \in RedeemThreads : redeem.pc[th] # "idle"}

\* C36: at most one redeem_position call is in progress at any time across
\* the collector's thread and the operator's redeem handlers, and no two
\* redemption transactions are built on the same wallet transaction count.
C36_RedeemsRunOneAtATime ==
    /\ Cardinality(RedeemsInProgress) <= 1
    /\ ~redeem.shared

\* What the code does guarantee (auxiliary to C36): the redemptions of one
\* thread run one after the other, so a thread's run has at most one call
\* in progress and a transaction sent on the current count advances it.
\* two threads hold transactions built on the same transaction count
RedeemsShareNonce == redeem.shared

RedeemsOfOneThreadAreSequential ==
    [][\A th \in RedeemThreads :
          redeem'.queue[th] < redeem.queue[th]
          => /\ redeem.queue[th] - redeem'.queue[th] = 1
             /\ redeem'.pc[th] = "idle"]_vars

\* ------------------------------------------------------------------------
\* SpecRegistry : the block registry under calls with any asset string, and
\* the head of place_buy_order that consults it
\* ------------------------------------------------------------------------
\* asset strings handed to the registry: the registry's coins, a coin in
\* upper case and a coin the registry does not list
RegistryAssets == COINS \cup {"BTC", "doge"}

\* the coin argument of place_buy_order: an asset string, or "" for None
BuyCoins == RegistryAssets \cup {""}

\* slugs handed to the registry; the first component is the coin whose
\* "<coin>-updown-" the slug's text contains ("doge": none of the four)
RegistrySlugs == {<<"btc", 1>>, <<"eth", 1>>, <<"doge", 1>>}

\* a variant of the derivation that never finds a coin in the slug
DerivedCoinNone(slug) == ""

\* place_buy_order, lines 547-551: the coin an absent argument is given
DerivedCoin(slug) == IF slug[1] \in COINS THEN slug[1] ELSE ""

\* the coin place_buy_order works with
BuyCoin(slug, coin) == IF coin = "" THEN DerivedCoin(slug) ELSE coin

\* the head of place_buy_order for an order the guard admits in live mode:
\* the dry run's simulated fill, the registry's rejection, or the FAK loop
BuyHead(slug, coin) ==
    IF dry_run THEN "DRY_RUN"
    ELSE IF BuyCoin(slug, coin) # ""
            /\ is_market_blocked(slug, BuyCoin(slug, coin))
    THEN "MARKET_BLOCKED_FOR_COIN"
    ELSE "FAK_LOOP"

InitRegistry ==
    /\ pc = [t \in Threads |-> "idle"]
    /\ loc = [t \in Threads |-> NoLocals]
    /\ positions = <<>>
    /\ closed_markets = {}
    /\ current_capital = [c \in COINS |-> 0]
    /\ closed_trades = [c \in COINS |-> <<>>]
    /\ lock = [c \in COINS |-> 0]
    /\ token_ids_cache = Slugs
    /\ order_executor = TRUE
    /\ emergency_stop = FALSE
    /\ dry_run \in BOOLEAN
    /\ sweep_enable_fallback = FALSE
    /\ rpc = NoRpc
    /\ redeem = NoRedeem
    /\ registry_call = NoCall
    /\ orders_history = 0
    /\ invested_per_market = [s \in Slugs |-> 0]
    /\ blocked_markets = [c \in COINS |-> {}]
    /\ market_start_prices = [c \in COINS |-> (<<c, 1>> :> 50)]
    /\ last_entry = NoEntry
    /\ witnessed_market_switch = [c \in COINS |-> FALSE]
    /\ feed_slug = [c \in COINS |-> <<c, 1>>]
    /\ mv = NoMain
    /\ hist = NoHist
    /\ sv = [t \in Threads |-> NoSell]
    /\ chain_balance = [k \in Tokens |-> 0]

RegistryUnchanged ==
    UNCHANGED <<pc, loc, traderVars, token_ids_cache, order_executor,
                emergency_stop, dry_run, sweep_enable_fallback, rpc, redeem,
                safetyVars, market_start_prices, loopVars, sv,
                chain_balance>>

\* some thread calls OrderExecutor.block_market(slug, asset)
RegistryBlock ==
    \E slug \in RegistrySlugs, asset \in RegistryAssets :
       /\ block_market(slug, asset)
       /\ registry_call' = [op |-> "block", slug |-> slug, coin |-> asset,
                            outcome |-> ""]
       /\ RegistryUnchanged

\* some thread calls OrderExecutor.unblock_market(slug, asset)
RegistryUnblock ==
    \E slug \in RegistrySlugs, asset \in RegistryAssets :
       /\ unblock_market(slug, asset)
       /\ registry_call' = [op |-> "unblock", slug |-> slug, coin |-> asset,
                            outcome |-> ""]
       /\ RegistryUnchanged

\* some thread calls place_buy_order for the slug, with or without a coin
RegistryBuy ==
    \E slug \in RegistrySlugs, coin \in BuyCoins :
       /\ registry_call' = [op |-> "buy", slug |-> slug, coin |-> coin,
                            outcome |-> BuyHead(slug, coin)]
       /\ UNCHANGED blocked_markets
       /\ RegistryUnchanged

NextRegistry == RegistryBlock \/ RegistryUnblock \/ RegistryBuy

SpecRegistry == InitRegistry /\ [][NextRegistry]_vars

\* the slug is blocked under some asset string
BlockedUnderSomeAsset(slug) ==
    \E asset \in RegistryAssets : is_market_blocked(slug, asset)

\* block_market and unblock_market are idempotent: a call that finds the
\* registry as it would leave it changes nothing
RegistryCallsIdempotent ==
    LET c == registry_call'
    IN  /\ (c.op = "block" /\ is_market_blocked(c.slug, c.coin))
           => UNCHANGED blocked_markets
        /\ (c.op = "unblock" /\ ~is_market_blocked(c.slug, c.coin))
           => UNCHANGED blocked_markets

\* a slug blocked under an asset stays blocked until unblock_market is
\* called with that slug and asset
BlockedUntilUnblocked ==
    \A slug \in RegistrySlugs, asset \in RegistryAssets :
        (is_market_blocked(slug, asset) /\ ~is_market_blocked(slug, asset)')
        => registry_call' = [op |-> "unblock", slug |-> slug,
                             coin |-> asset, outcome |-> ""]

\* block_market(slug, asset) has just returned
JustBlocked(slug, asset) ==
    registry_call' = [op |-> "block", slug |-> slug, coin |-> asset,
                      outcome |-> ""]

\* C37: for every asset string and slug, after block_market(slug, asset)
\* returns, is_market_blocked(slug, asset) is true and stays true until
\* unblock_market(slug, asset) is called; a buy for a slug that is blocked
\* is rejected, whether the asset is passed to place_buy_order or derived
\* from the slug; block and unblock are idempotent.
C37_BlockHoldsAndRejectsBuys ==
    [][LET c == registry_call'
       IN  /\ \A slug \in RegistrySlugs, asset \in RegistryAssets :
                 JustBlocked(slug, asset) => is_market_blocked(slug, asset)'
           /\ BlockedUntilUnblocked
           /\ (c.op = "buy" /\ BlockedUnderSomeAsset(c.slug))
              => c.outcome = "MARKET_BLOCKED_FOR_COIN"
           /\ RegistryCallsIdempotent]_vars

\* C37 as the code has it: for an asset that is one of the registry's
\* coins, block_market(slug, asset) leaves the slug blocked under that
\* asset until unblock_market(slug, asset) is called, and for any other
\* asset string it changes nothing and the slug is not blocked; a live buy
\* that the guard admits is rejected when the slug is blocked under the
\* coin the call works with (the coin passed or, when none is passed, the
\* coin derived from the slug), and is not rejected by the registry when
\* the slug is blocked under another asset only, when no coin is passed
\* and none can be derived, or in a dry run; block and unblock are
\* idempotent.
C37_BlockHoldsForRegistryCoins ==
    [][LET c == registry_call'
           coin == IF c.coin = "" THEN CoinOf(c.slug) ELSE c.coin
       IN  /\ \A slug \in RegistrySlugs, asset \in RegistryAssets :
                 JustBlocked(slug, asset)
                 => /\ is_market_blocked(slug, asset)' <=> asset \in COINS
                    /\ asset \notin COINS => UNCHANGED blocked_markets
           /\ BlockedUntilUnblocked
           /\ c.op = "buy"
              => (c.outcome = "MARKET_BLOCKED_FOR_COIN"
                  <=> (~dry_run /\ is_market_blocked(c.slug, coin)))
           /\ RegistryCallsIdempotent]_vars

\* a buy without a coin argument was rejected for a slug blocked under the
\* coin derived from it
C37_Witness ==
    /\ registry_call.op = "buy"
    /\ registry_call.coin = ""
    /\ registry_call.outcome = "MARKET_BLOCKED_FOR_COIN"
    /\ is_market_blocked(registry_call.slug, DerivedCoin(registry_call.slug))

\* a buy entered the FAK loop for a slug that is blocked under an asset
BlockedSlugBought ==
    /\ registry_call.op = "buy"
    /\ registry_call.outcome = "FAK_LOOP"
    /\ BlockedUnderSomeAsset(registry_call.slug)

\* ------------------------------------------------------------------------
\* SpecReload : a ledger closes markets, writing trades.jsonl, and is
\* constructed again from the file
\* ------------------------------------------------------------------------
\* restarts of the bot in a behaviour
MaxRestarts == 1

\* the record a close appended to closed_trades in this step, which is the
\* record _log_trade wrote just before
TradeWritten(coin) ==
    IF Len(closed_trades'[coin]) > Len(closed_trades[coin])
    THEN <<closed_trades'[coin][Len(closed_trades'[coin])]>>
    ELSE <<>>

\* the call is counted, a failed write too, and the written record joins
\* the file
Logged(coin, log_ok, writes) ==
    hist' = [hist EXCEPT !.closes = @ + 1,
                         !.log_failures = IF log_ok \/ ~writes THEN @
                                          ELSE @ + 1,
                         !.trades_file[coin] = @ \o TradeWritten(coin)]

\* the market's winner is redeemed and the position is closed
ReloadClose(t) ==
    /\ hist.closes < MaxCloses
    /\ \E winner \in Sides, log_ok \in BOOLEAN :
          /\ CloseMarket(t, ExitSlug, winner, log_ok)
          /\ Logged(CoinOf(ExitSlug), log_ok, ExitSlug \in DOMAIN positions)

\* an exit trigger calls close_market_early_exit, which writes the record
\* with the estimated payout
ReloadExit(t) ==
    /\ pc[t] = "idle"
    /\ hist.closes < MaxCloses
    /\ \E exit_price \in ExitPrices, log_ok \in BOOLEAN :
          /\ ExitBegin(t, ExitSlug, exit_price, log_ok)
          /\ Logged(CoinOf(ExitSlug), log_ok,
                    ExitSlug \in DOMAIN positions
                    /\ ExitSlug \notin closed_markets)

\* trader.py lines 798-804: the record written after the real sells, a
\* copy of the trade with the real payout and PnL
CorrectiveRecord(x) ==
    <<[market_slug |-> x.slug, pnl |-> x.real_payout - x.total_cost,
       payout |-> x.real_payout, total_cost |-> x.total_cost]>>

\* the early exit ends; with real proceeds it writes the corrective record
ReloadFinish(t) ==
    \E log_ok \in BOOLEAN :
       LET x == loc[t].exit
           due == /\ pc[t] = "cx_update"
                  /\ CorrectionDue(x.real_sells_executed, x.real_payout)
       IN  /\ ExitFinish(t, log_ok)
           /\ hist' = [hist EXCEPT
                 !.log_failures = IF due /\ ~log_ok THEN @ + 1 ELSE @,
                 !.trades_file[CoinOf(x.slug)] =
                     IF due /\ log_ok THEN @ \o CorrectiveRecord(x) ELSE @]

\* Trader.load_previous_trades: every line of the file with a pnl and a
\* market_slug becomes a closed trade
LoadedTrades(file) == file

\* Trader.load_previous_trades: the capital after the load, the starting
\* capital (0) plus the pnl of every loaded trade
LoadedCapital(file) == IF Len(file) > 0 THEN 0 + SumPnl(file) ELSE 0

\* the bot is started again: Trader.__init__ builds an empty ledger and
\* load_previous_trades restores it from trades.jsonl
Restart ==
    /\ \A t \in Threads : pc[t] = "idle"
    /\ hist.restarts < MaxRestarts
    /\ hist' = [hist EXCEPT !.restarts = @ + 1]
    /\ positions' = <<>>
    /\ closed_markets' = {}
    /\ closed_trades' = [c \in COINS |-> LoadedTrades(hist.trades_file[c])]
    /\ current_capital' =
          [c \in COINS |-> LoadedCapital(hist.trades_file[c])]
    /\ UNCHANGED <<pc, loc, last_entry, lock, cfgVars, safetyVars,
                   blocked_markets, market_start_prices,
                   witnessed_market_switch, feed_slug, mv, sv,
                   chain_balance>>

NextReload ==
    \/ LedgerEnter(1)
    \/ ReloadClose(1)
    \/ ReloadExit(1)
    \/ LifeExitSell(1)
    \/ TickSell(1)
    \/ ExitSellResult(1)
    \/ ReloadFinish(1)
    \/ CbClosed(1)
    \/ Restart

SpecReload == InitLedger /\ [][NextReload]_vars

\* the ledger is constructed again in this step
Restarts == hist'.restarts > hist.restarts

\* the reloaded ledger has the capital and the number of closed trades of
\* the ledger that wrote the file
ReloadReproduces ==
    /\ current_capital' = current_capital
    /\ \A c \in COINS : Len(closed_trades'[c]) = Len(closed_trades[c])

\* C38: after load_previous_trades, current_capital and the number of
\* closed trades equal those of the ledger that wrote the trade log, for
\* any history, early exits that wrote an estimated record followed by a
\* corrective record included.
C38_ReloadReproducesWriter ==
    [][Restarts => ReloadReproduces]_vars

\* What does hold (auxiliary to C38): the reload reproduces the writer when
\* no write of the file failed and no corrective record was written, that
\* is when the file has one record per closed trade.
ReloadReproducesWithoutCorrection ==
    [][(/\ Restarts
        /\ hist.log_failures = 0
        /\ \A c \in COINS :
              Len(hist.trades_file[c]) = Len(closed_trades[c]))
       => ReloadReproduces]_vars

\* a ledger was reloaded from a file with a corrective record, every write
\* of the file having succeeded
ReloadedWithCorrection ==
    /\ hist.restarts > 0
    /\ hist.log_failures = 0
    /\ \E c \in COINS :
          /\ Len(hist.trades_file[c]) = 2
          /\ hist.trades_file[c][1].market_slug
               = hist.trades_file[c][2].market_slug

\* ------------------------------------------------------------------------
\* SpecSellFair : one sell_position call by a thread that keeps running,
\* at the floor price.  Fairness: the thread inside sell_position takes its
\* next step; the venue and the balance endpoints answer every request,
\* with whatever answer
\* ------------------------------------------------------------------------
\* on-chain balances at the start of the sell, in milli-contracts: one
\* chunk and two chunks
FairBalances == {150, 40200}

InitSellFair == InitSell /\ chain_balance[SellToken] \in FairBalances

\* sell_position is called; every order goes out at PRICE, one cent
SellCallFair(t) ==
    /\ pc[t] = "idle"
    /\ \E q \in BalanceQuery(SellToken) : SellBegin(t, SellToken, q, 1)
    /\ UNCHANGED <<loc, traderVars, cfgVars, safetyVars, marketVars,
                   chain_balance>>

\* the steps of sell_position after the call
SellStep ==
    \/ VenueChunk(1)
    \/ \E q \in BalanceQuery(sv[1].token) : SellRequery(1, q)
    \/ VenueSweep(1)
    \/ \E q \in BalanceQuery(sv[1].token) : SweepFinal(1, q)
    \/ VenueFallbackFak(1)
    \/ VenueFallbackGtc(1)
    \/ \E q \in BalanceQuery(sv[1].token) : DelayedQuery(1, q)
    \/ VenueDelayed(1, "d_fok")
    \/ VenueDelayed(1, "d_fak")
    \/ VenueDelayed(1, "d_gtc")
    \/ SellReport(1)

NextSellFair == SellCallFair(1) \/ SellStep \/ LateFill(1)

SpecSellFair == InitSellFair /\ [][NextSellFair]_vars /\ WF_vars(SellStep)

\* the orders one call may submit: every chunk up to its retry cap, then
\* the attempt caps of the sweep, of the fallback (its fill-and-kill
\* attempts and its one market order) and of the delayed sweep (its
\* fill-or-kill and fill-and-kill attempts and its one market order)
OrderBudget(chunks) ==
    Len(chunks) * MAX_CHUNK_RETRIES
      + SWEEP_MAX_ATTEMPTS
      + (SWEEP_FAK_ATTEMPTS + 1)
      + (DELAYED_SWEEP_FOK_ATTEMPTS + DELAYED_SWEEP_FAK_ATTEMPTS + 1)

\* C39: sell_position terminates whatever the venue and the balance
\* endpoints answer, and the orders it submits in one call number at most
\* (chunks x per-chunk retry cap) plus the attempt caps of the sweep, the
\* fallback and the delayed sweep.
C39_SellTerminatesWithinOrderBudget ==
    /\ [](sv[1].n_orders <= OrderBudget(sv[1].chunks))
    /\ (pc[1] \in SellPcs) ~> (pc[1] = "sell_returned")

\* a call returned after every order of every stage failed or left residue:
\* it used its whole budget
C39_Witness ==
    /\ pc[1] = "sell_returned"
    /\ Len(sv[1].chunks) = 2
    /\ sv[1].n_orders = OrderBudget(sv[1].chunks)

====
